---- MODULE Spec2Model ----
(***************************************************************************)
(* Store-rating application: the relational schema, its row-level          *)
(* policies, the store_ratings view and the registration trigger           *)
(* (src/src/pages/Index.tsx, SQL part), the provisioning endpoint          *)
(* (src/unnamed/part_000) and the dashboards' data operations              *)
(* (src/src/components/dashboards).                                        *)
(*                                                                         *)
(* Tables are sets of rows (records).  A statement issued through the      *)
(* policy-gated path is an operator  <Table><Op>Result(uid, ...)  that     *)
(* returns the SQLSTATE of the statement and the table it leaves; the      *)
(* actions apply these operators.  `resp' holds the last response.         *)
(***************************************************************************)
EXTENDS Integers, FiniteSets, Sequences

\* ------------------------------------------------------------------ bounds
\* Rating rows ever inserted (ratings.id comes from gen_random_uuid(): a fresh
\* id per insert, modelled as a counter).
MaxRatingId == 2
\* Identities ever created in auth.users.
MaxUsers == 3
\* Store rows ever inserted (stores.id is a fresh id per insert).
MaxStoreId == 2
\* fetchStores calls a dashboard may have in flight at once.
MaxFetch == 1

\* ------------------------------------------------------------ value domains
NULL == "null"
UserIds == {"u1", "u2", "u3", "u4"}
StoreIds == {"s1", "s2", "s3"}
\* app_role enum
AppRoles == {"system_admin", "normal_user", "store_owner"}
\* rating values a caller may send: inside and outside the CHECK range
RatingInputs == {0, 2, 5, 6}
\* "no filter on this column" marker of a WHERE clause
ANY == "any"
\* A StoreWithRating whose user_rating is undefined: falsy, and 0 once
\* openRatingDialog has taken  store.user_rating || 0.
NoRating == 0
\* The stars a user clicks in the rating dialog (of 1..5).
StarInputs == {2, 4}

UserOf(n) == CASE n = 1 -> "u1" [] n = 2 -> "u2" [] n = 3 -> "u3" [] OTHER -> "u4"
StoreOf(n) == CASE n = 1 -> "s1" [] n = 2 -> "s2" [] OTHER -> "s3"

VARIABLES
  auth_users,   \* auth.users: set of [id, email, meta: [name, address]]
  profiles,     \* public.profiles: set of [id, name, email, address, updated_at]
  user_roles,   \* public.user_roles: set of [user_id, role]
  stores,       \* public.stores: set of [id, owner_id, name, updated_at]
  ratings,      \* public.ratings: set of [id, user_id, store_id, rating, updated_at]
  nextRatingId, \* ratings inserted so far + 1
  nextStoreId,  \* stores inserted so far + 1
  now,          \* now()
  resp,         \* last response: [op, caller, status, rows]
  owner_dash,   \* a StoreOwnerDashboard: its user, React state and await position
  user_dash,    \* NormalUserDashboards: client -> user, React state, requests in flight
  api,          \* the provisioning handler's request in flight: <<>> or <<[user_id, role]>>
  admin_dash    \* a SystemAdminDashboard: its user, React state and await positions

dbvars == <<auth_users, profiles, user_roles, stores, ratings, nextRatingId,
            nextStoreId, now>>

\* SQLSTATEs
OK == "ok"
RlsViolation == "42501"
UniqueViolation == "23505"
CheckViolation == "23514"
FkViolation == "23503"
NotNullViolation == "23502"

\* SQL three-valued equality used as a condition: NULL = x is not true.
SqlEq(a, b) == a # NULL /\ b # NULL /\ a = b

RECURSIVE SumRatings(_)
SumRatings(rows) ==
  IF rows = {} THEN 0
  ELSE LET r == CHOOSE x \in rows : TRUE
       IN r.rating + SumRatings(rows \ {r})

RECURSIVE Gcd(_, _)
Gcd(a, b) == IF b = 0 THEN a ELSE Gcd(b, a % b)

\* An exact rational in lowest terms (SQL numeric AVG of integers).
Ratio(n, d) == LET g == Gcd(n, d) IN [num |-> n \div g, den |-> d \div g]

\* ------------------------------------------------- authorization functions
\* public.has_role(_user_id, _role)
has_role(_user_id, _role) ==
  \E r \in user_roles : SqlEq(r.user_id, _user_id) /\ r.role = _role

\* ------------------------------------------------------- row-level policies
\* profiles
UsersCanViewTheirOwnProfile(uid, row) == SqlEq(uid, row.id)
UsersCanUpdateTheirOwnProfile(uid, row) == SqlEq(uid, row.id)
SystemAdminsCanViewAllProfiles(uid, row) == has_role(uid, "system_admin")
SystemAdminsCanInsertProfiles(uid, row) == has_role(uid, "system_admin")
SystemAdminsCanUpdateAllProfiles(uid, row) == has_role(uid, "system_admin")
\* user_roles
UsersCanViewTheirOwnRoles(uid, row) == SqlEq(uid, row.user_id)
SystemAdminsCanViewAllRoles(uid, row) == has_role(uid, "system_admin")
SystemAdminsCanManageAllRoles(uid, row) == has_role(uid, "system_admin")
\* stores
EveryoneCanViewStores(uid, row) == TRUE
StoreOwnersCanUpdateTheirOwnStore(uid, row) == SqlEq(uid, row.owner_id)
SystemAdminsCanManageAllStores(uid, row) == has_role(uid, "system_admin")
\* ratings
UsersCanViewAllRatings(uid, row) == TRUE
UsersCanInsertTheirOwnRatings(uid, row) == SqlEq(uid, row.user_id)
UsersCanUpdateTheirOwnRatings(uid, row) == SqlEq(uid, row.user_id)
UsersCanDeleteTheirOwnRatings(uid, row) == SqlEq(uid, row.user_id)

\* Permissive policies of one table and command are OR-ed; a FOR ALL policy
\* counts for every command; an UPDATE policy without WITH CHECK uses its
\* USING expression for the new row too.
\* (mutation: a store owner also sees the profiles of those who rated a store
\* of theirs)
ProfilesSelectPolicyRaters(uid, row) ==
  \/ UsersCanViewTheirOwnProfile(uid, row)
  \/ SystemAdminsCanViewAllProfiles(uid, row)
  \/ \E s \in stores, r \in ratings :
       SqlEq(s.owner_id, uid) /\ r.store_id = s.id /\ r.user_id = row.id
ProfilesSelectPolicy(uid, row) ==
  UsersCanViewTheirOwnProfile(uid, row) \/ SystemAdminsCanViewAllProfiles(uid, row)
ProfilesUpdatePolicy(uid, row) ==
  UsersCanUpdateTheirOwnProfile(uid, row) \/ SystemAdminsCanUpdateAllProfiles(uid, row)
\* (mutation: every signed-in caller may insert profiles)
ProfilesInsertPolicySignedIn(uid, row) == uid # NULL
ProfilesInsertPolicy(uid, row) == SystemAdminsCanInsertProfiles(uid, row)
RolesSelectPolicy(uid, row) ==
  \/ UsersCanViewTheirOwnRoles(uid, row)
  \/ SystemAdminsCanViewAllRoles(uid, row)
  \/ SystemAdminsCanManageAllRoles(uid, row)
\* (mutation: a user may also manage the role rows that name the user)
RolesWritePolicyOwnRows(uid, row) ==
  SystemAdminsCanManageAllRoles(uid, row) \/ SqlEq(uid, row.user_id)
RolesWritePolicy(uid, row) == SystemAdminsCanManageAllRoles(uid, row)
\* (mutation: stores are visible to signed-in callers only)
StoresSelectPolicySignedIn(uid, row) == uid # NULL
StoresSelectPolicy(uid, row) ==
  EveryoneCanViewStores(uid, row) \/ SystemAdminsCanManageAllStores(uid, row)
\* (mutation: every signed-in caller may update a store)
StoresUpdatePolicySignedIn(uid, row) == uid # NULL
StoresUpdatePolicy(uid, row) ==
  StoreOwnersCanUpdateTheirOwnStore(uid, row) \/ SystemAdminsCanManageAllStores(uid, row)
StoresInsertPolicy(uid, row) == SystemAdminsCanManageAllStores(uid, row)
StoresDeletePolicy(uid, row) == SystemAdminsCanManageAllStores(uid, row)
RatingsSelectPolicy(uid, row) == UsersCanViewAllRatings(uid, row)
RatingsInsertPolicy(uid, row) == UsersCanInsertTheirOwnRatings(uid, row)
RatingsUpdatePolicy(uid, row) == UsersCanUpdateTheirOwnRatings(uid, row)
RatingsDeletePolicy(uid, row) == UsersCanDeleteTheirOwnRatings(uid, row)

\* ------------------------------------------------------------- statements
\* A WHERE clause of .eq() filters: f maps some columns to the value required.
Matches(row, f) == \A c \in DOMAIN f : f[c] = ANY \/ row[c] = f[c]

\* An UPDATE's SET list: p maps the columns it sets to their new values.
ApplyPatch(row, p) == [c \in DOMAIN row |-> IF c \in DOMAIN p THEN p[c] ELSE row[c]]

\* public.update_updated_at_column(), BEFORE UPDATE FOR EACH ROW
update_updated_at_column(new_row) == [new_row EXCEPT !.updated_at = now]

AuthIds == {u.id : u \in auth_users}
StoreRowIds == {s.id : s \in stores}

\* CHECK (rating >= 1 AND rating <= 5)
\* (mutation: the CHECK constraint dropped)
RatingCheckNone(row) == TRUE
RatingCheck(row) == row.rating >= 1 /\ row.rating <= 5

\* UNIQUE(user_id, store_id) over a set of rows
\* (mutation: the UNIQUE constraint dropped)
RatingsUniqueNone(rows) == TRUE
RatingsUnique(rows) ==
  \A a, b \in rows :
    (a.user_id = b.user_id /\ a.store_id = b.store_id) => a.id = b.id

\* user_id REFERENCES auth.users(id), store_id REFERENCES public.stores(id)
RatingFk(row) == row.user_id \in AuthIds /\ row.store_id \in StoreRowIds

\* INSERT INTO ratings (user_id, store_id, rating): id and timestamps default.
RatingsInsertResult(uid, vals) ==
  LET new == [id |-> nextRatingId, user_id |-> vals.user_id,
              store_id |-> vals.store_id, rating |-> vals.rating,
              updated_at |-> now]
      fail(code) == [status |-> code, ratings |-> ratings]
  IN  IF ~RatingsInsertPolicy(uid, new) THEN fail(RlsViolation)
      ELSE IF new.user_id = NULL \/ new.store_id = NULL THEN fail(NotNullViolation)
      ELSE IF ~RatingCheck(new) THEN fail(CheckViolation)
      ELSE IF ~RatingsUnique(ratings \cup {new}) THEN fail(UniqueViolation)
      ELSE IF ~RatingFk(new) THEN fail(FkViolation)
      ELSE [status |-> OK, ratings |-> ratings \cup {new}]

\* The WITH CHECK of an UPDATE policy that states none: its USING expression.
\* (mutation: the new row is not checked against the policy)
RatingsUpdateCheckNone(uid, row) == TRUE
RatingsUpdateCheck(uid, row) == RatingsUpdatePolicy(uid, row)

\* UPDATE ratings SET p WHERE f
RatingsUpdateResult(uid, f, p) ==
  LET targets == {r \in ratings : /\ RatingsSelectPolicy(uid, r)
                                  /\ Matches(r, f)
                                  /\ RatingsUpdatePolicy(uid, r)}
      newOf(r) == update_updated_at_column(ApplyPatch(r, p))
      news == {newOf(r) : r \in targets}
      after == (ratings \ targets) \cup news
      fail(code) == [status |-> code, ratings |-> ratings, n |-> 0]
  IN  IF \E r \in news : ~RatingsUpdateCheck(uid, r) THEN fail(RlsViolation)
      ELSE IF \E r \in news : ~RatingCheck(r) THEN fail(CheckViolation)
      ELSE IF ~RatingsUnique(after) THEN fail(UniqueViolation)
      ELSE IF \E r \in news : ~RatingFk(r) THEN fail(FkViolation)
      ELSE [status |-> OK, ratings |-> after, n |-> Cardinality(targets)]

\* DELETE FROM ratings WHERE f
RatingsDeleteResult(uid, f) ==
  LET targets == {r \in ratings : /\ RatingsSelectPolicy(uid, r)
                                  /\ Matches(r, f)
                                  /\ RatingsDeletePolicy(uid, r)}
  IN  [status |-> OK, ratings |-> ratings \ targets, n |-> Cardinality(targets)]

\* INSERT INTO stores (owner_id, name): a FOR ALL policy's USING checks the
\* new row.
StoresInsertResult(uid, vals) ==
  LET new == [id |-> StoreOf(nextStoreId), owner_id |-> vals.owner_id,
              name |-> vals.name, updated_at |-> now]
      fail(code) == [status |-> code, stores |-> stores]
  IN  IF ~StoresInsertPolicy(uid, new) THEN fail(RlsViolation)
      ELSE IF new.owner_id = NULL \/ new.name = NULL THEN fail(NotNullViolation)
      ELSE IF new.owner_id \notin AuthIds THEN fail(FkViolation)
      ELSE [status |-> OK, stores |-> stores \cup {new}]

\* DELETE FROM stores WHERE f; ratings.store_id is ON DELETE CASCADE.
StoresDeleteResult(uid, f) ==
  LET targets == {s \in stores : /\ StoresSelectPolicy(uid, s)
                                 /\ Matches(s, f)
                                 /\ StoresDeletePolicy(uid, s)}
      gone == {s.id : s \in targets}
  IN  [status |-> OK, stores |-> stores \ targets,
       ratings |-> {r \in ratings : r.store_id \notin gone},
       n |-> Cardinality(targets)]

\* ------------------------------------------------------------------- view
\* FROM stores s LEFT JOIN ratings r ON s.id = r.store_id.  The r side of a
\* joined row is <<row>>, or <<>> where the outer join fills NULLs.
\* (mutation: an inner join)
StoresInnerJoinRatings ==
  {j \in {[s |-> s, r |-> <<r>>] : s \in stores, r \in ratings} :
      j.s.id = j.r[1].store_id}
StoresLeftJoinRatings ==
  LET matched == {j \in {[s |-> s, r |-> <<r>>] : s \in stores, r \in ratings} :
                     j.s.id = j.r[1].store_id}
      lone == {s \in stores : ~\E r \in ratings : s.id = r.store_id}
  IN  matched \cup {[s |-> s, r |-> <<>>] : s \in lone}

\* COALESCE(AVG(r.rating), 0): AVG skips NULLs and is NULL over none.
\* (mutation: the mean taken over the count plus one)
AvgRatingOffByOne(group) ==
  LET rs == {j.r[1] : j \in {x \in group : x.r # <<>>}}
  IN  IF rs = {} THEN Ratio(0, 1) ELSE Ratio(SumRatings(rs), Cardinality(rs) + 1)
AvgRating(group) ==
  LET rs == {j.r[1] : j \in {x \in group : x.r # <<>>}}
  IN  IF rs = {} THEN Ratio(0, 1) ELSE Ratio(SumRatings(rs), Cardinality(rs))

\* COUNT(r.id): the joined rows whose r.id is not NULL.
CountRatingId(group) == Cardinality({x \in group : x.r # <<>>})

\* public.store_ratings: GROUP BY s.id, ..., s.owner_id
store_ratings ==
  LET joined == StoresLeftJoinRatings
  IN  {[id |-> s.id, owner_id |-> s.owner_id,
        average_rating |-> AvgRating({j \in joined : j.s = s}),
        total_ratings |-> CountRatingId({j \in joined : j.s = s})]
       : s \in {j.s : j \in joined}}

\* ------------------------------------------------------------ state space
uivars == <<owner_dash, user_dash, api, admin_dash>>
vars == <<auth_users, profiles, user_roles, stores, ratings, nextRatingId,
          nextStoreId, now, resp, owner_dash, user_dash, api, admin_dash>>

\* auth.uid() of a request: a signed-in identity, or NULL for the anon key.
Callers == AuthIds \cup {NULL}

NoRequest == <<>>
NoResp == [op |-> "none", caller |-> NULL, status |-> OK, rows |-> {}]
Resp(op, uid, status, rows) ==
  [op |-> op, caller |-> uid, status |-> status, rows |-> rows]

\* A database after three registrations (u1, u2, u3), u1 promoted to
\* system_admin, and one store created for u3 by the admin dashboard.
SeededDb ==
  /\ auth_users = {[id |-> "u1", email |-> "a@x", meta |-> [name |-> "Ann", address |-> "A St"]],
                   [id |-> "u2", email |-> "b@x", meta |-> [name |-> "Bob", address |-> "B St"]],
                   [id |-> "u3", email |-> "c@x", meta |-> [name |-> "Cy", address |-> "C St"]]}
  /\ profiles = {[id |-> u.id, name |-> u.meta.name, email |-> u.email,
                  address |-> u.meta.address, updated_at |-> 0] : u \in auth_users}
  /\ user_roles = {[user_id |-> "u1", role |-> "system_admin"],
                   [user_id |-> "u2", role |-> "normal_user"],
                   [user_id |-> "u3", role |-> "store_owner"]}
  /\ stores = {[id |-> "s1", owner_id |-> "u3", name |-> "Shop", updated_at |-> 0]}
  /\ nextStoreId = 2
  /\ now = 1
  /\ resp = NoResp
  /\ api = NoRequest

\* No dashboard mounted.
NoOwnerDash ==
  [user |-> NULL, pc |-> "unmounted", storeInfo |-> <<>>, ratingsData |-> {},
   profilesData |-> {}, ratings |-> {}, loading |-> TRUE]
Clients == {"c1", "c2"}
NoUserDash ==
  [c \in Clients |->
     [user |-> NULL, stores |-> {}, selectedStore |-> <<>>, rating |-> 0,
      submit |-> <<>>, fetches |-> <<>>, toast |-> "none", error_message |-> NULL,
      loading |-> TRUE]]
\* The three count requests of fetchDashboardData's Promise.all.
CountRequests == {"profiles", "stores", "ratings"}
NoAdminDash ==
  [user |-> NULL, pc |-> "unmounted", fetch |-> "none", pending |-> {},
   counts |-> [t \in CountRequests |-> 0], request |-> <<>>, newStore |-> <<>>,
   ownerData |-> NULL,
   stats |-> [totalUsers |-> 0, totalStores |-> 0, totalRatings |-> 0],
   users |-> {}, stores |-> {}, toast |-> "none", loading |-> TRUE]

\* ---------------------------------------------- policy-gated statements
\* Inputs of the statements: the users named in rating rows and filters, the
\* stores named (s2 exists only once the admin has inserted it).
RaterInputs == {"u2", "u3"}
StoreInputs == {"s1", "s2"}
RatingVals == [user_id : RaterInputs, store_id : StoreInputs, rating : RatingInputs]
RatingFilters ==
  [user_id : RaterInputs, store_id : StoreInputs] \cup {[store_id |-> ANY]}
RatingPatches ==
  [rating : RatingInputs] \cup [user_id : RaterInputs] \cup [store_id : StoreInputs]

\* supabase.from('ratings').insert(vals) as uid
RatingInsert(uid, vals) ==
  /\ LET res == RatingsInsertResult(uid, vals)
     IN  /\ res.status = OK => nextRatingId <= MaxRatingId
         /\ ratings' = res.ratings
         /\ nextRatingId' = IF res.status = OK THEN nextRatingId + 1 ELSE nextRatingId
         /\ resp' = Resp("ratings.insert", uid, res.status, {})
  /\ UNCHANGED <<auth_users, profiles, user_roles, stores, nextStoreId, now, uivars>>

\* supabase.from('ratings').update(p).match(f) as uid
RatingUpdate(uid, f, p) ==
  /\ LET res == RatingsUpdateResult(uid, f, p)
     IN  /\ ratings' = res.ratings
         /\ resp' = Resp("ratings.update", uid, res.status, {})
  /\ UNCHANGED <<auth_users, profiles, user_roles, stores, nextRatingId,
                 nextStoreId, now, uivars>>

\* supabase.from('ratings').delete().match(f) as uid
RatingDelete(uid, f) ==
  /\ LET res == RatingsDeleteResult(uid, f)
     IN  /\ ratings' = res.ratings
         /\ resp' = Resp("ratings.delete", uid, res.status, {})
  /\ UNCHANGED <<auth_users, profiles, user_roles, stores, nextRatingId,
                 nextStoreId, now, uivars>>

\* supabase.from('stores').insert(vals) as uid
StoreInsert(uid, vals) ==
  /\ LET res == StoresInsertResult(uid, vals)
     IN  /\ res.status = OK => nextStoreId <= MaxStoreId
         /\ stores' = res.stores
         /\ nextStoreId' = IF res.status = OK THEN nextStoreId + 1 ELSE nextStoreId
         /\ resp' = Resp("stores.insert", uid, res.status, {})
  /\ UNCHANGED <<auth_users, profiles, user_roles, ratings, nextRatingId, now, uivars>>

\* supabase.from('stores').delete().match(f) as uid
StoreDelete(uid, f) ==
  /\ LET res == StoresDeleteResult(uid, f)
     IN  /\ stores' = res.stores
         /\ ratings' = res.ratings
         /\ resp' = Resp("stores.delete", uid, res.status, {})
  /\ UNCHANGED <<auth_users, profiles, user_roles, nextRatingId, nextStoreId, now, uivars>>

\* supabase.from('store_ratings').select('*') as uid
StoreRatingsSelect(uid) ==
  /\ resp' = Resp("store_ratings.select", uid, OK, store_ratings)
  /\ UNCHANGED <<dbvars, uivars>>

\* ------------------------------------------- specification: ratings table
InitRatings ==
  /\ SeededDb
  /\ ratings = {}
  /\ nextRatingId = 1
  /\ owner_dash = NoOwnerDash
  /\ user_dash = NoUserDash
  /\ admin_dash = NoAdminDash

NextRatings ==
  \/ \E uid \in Callers, vals \in RatingVals : RatingInsert(uid, vals)
  \/ \E uid \in Callers, f \in RatingFilters, p \in RatingPatches : RatingUpdate(uid, f, p)
  \/ \E uid \in Callers, f \in RatingFilters : RatingDelete(uid, f)
  \/ \E uid \in Callers, o \in {"u3", "u4"} :
       StoreInsert(uid, [owner_id |-> o, name |-> "Shop"])
  \/ \E uid \in Callers, s \in StoreInputs : StoreDelete(uid, [id |-> s])
  \/ \E uid \in Callers : StoreRatingsSelect(uid)

SpecRatings == InitRatings /\ [][NextRatings]_vars

\* ----------------------------------------------------- claims: ratings
RatingsOf(u, s) == {r \in ratings : r.user_id = u /\ r.store_id = s}
RatingsOfStore(s) == {r \in ratings : r.store_id = s}

AtMostOneRatingPerPair ==
  \A u \in UserIds, s \in StoreIds : Cardinality(RatingsOf(u, s)) <= 1

\* C1 as stated: in every state at most one rating row per (user_id,
\* store_id); and every insert for a pair that already has a row is answered
\* with a uniqueness violation (23505) and leaves the table as it was.
C1_InsertForExistingPairIsUniqueViolation ==
  /\ []AtMostOneRatingPerPair
  /\ [][resp'.op = "ratings.insert" =>
        \A uid \in {resp'.caller}, vals \in RatingVals :
          (RatingsOf(vals.user_id, vals.store_id) # {} /\ RatingInsert(uid, vals))
            => (resp'.status = UniqueViolation /\ ratings' = ratings)]_vars

\* C1 amended: in every state at most one rating row per (user_id, store_id);
\* every insert for a pair that already has a row fails and leaves the table
\* as it was; it fails with a uniqueness violation (23505) when the caller is
\* the user the row names and the value is within 1..5, and otherwise the
\* insert policy (42501) or the CHECK (23514) rejects it first.
C1_OneRatingPerPair ==
  /\ []AtMostOneRatingPerPair
  /\ [](\A uid \in Callers, vals \in RatingVals :
          RatingsOf(vals.user_id, vals.store_id) # {}
            => LET res == RatingsInsertResult(uid, vals)
               IN  /\ res.ratings = ratings
                   /\ res.status # OK
                   /\ (uid = vals.user_id /\ vals.rating \in 1..5)
                         => res.status = UniqueViolation
                   /\ uid # vals.user_id => res.status = RlsViolation
                   /\ (uid = vals.user_id /\ vals.rating \notin 1..5)
                         => res.status = CheckViolation)
  /\ [][resp'.op = "ratings.insert" =>
          IF resp'.status = OK
          THEN \E r \in ratings' \ ratings :
                 /\ RatingsOf(r.user_id, r.store_id) = {}
                 /\ ratings' = ratings \cup {r}
          ELSE ratings' = ratings]_vars

\* C1 witness: a second insert for a rated pair has just been answered 23505.
C1_Witness ==
  /\ resp.op = "ratings.insert"
  /\ resp.status = UniqueViolation
  /\ \E r \in ratings : r.user_id = resp.caller

\* C4 as stated: a rating row appears, changes or disappears only in a step
\* whose caller is the user the row names.
C4_OnlyTheNamedUserWrites ==
  [][/\ \A r \in ratings' \ ratings : resp'.caller = r.user_id
     /\ \A r \in ratings \ ratings' : resp'.caller = r.user_id]_vars

\* C4 amended: a rating row is inserted only by a caller whose id is the new
\* row's user_id, and is updated or deleted by a statement on ratings only by
\* the caller its user_id names (before and after the update); the one other
\* way a rating row goes is the ON DELETE CASCADE of its store, deleted by a
\* system_admin.  No caller changes another user's rating.
C4_RatingsWrittenByTheirUser ==
  [][/\ \A r \in ratings' \ ratings : resp'.caller = r.user_id
     /\ \A r \in ratings \ ratings' :
          \/ resp'.caller = r.user_id
          \/ /\ resp'.op = "stores.delete"
             /\ has_role(resp'.caller, "system_admin")
             /\ r.store_id \in StoreRowIds
             /\ r.store_id \notin {s.id : s \in stores'}
             /\ ~\E q \in ratings' : q.id = r.id]_vars

\* C4 witness: the system_admin's unfiltered delete on ratings has been
\* answered and another user's rating is still there.
C4_Witness ==
  /\ resp.op = "ratings.delete"
  /\ has_role(resp.caller, "system_admin")
  /\ \E r \in ratings : r.user_id # resp.caller

\* The sum and the number of a store's ratings, folded over the rating ids.
RECURSIVE SumUpTo(_, _)
SumUpTo(s, k) ==
  IF k = 0 THEN 0
  ELSE SumUpTo(s, k - 1)
       + (IF \E r \in ratings : r.id = k /\ r.store_id = s
          THEN (CHOOSE r \in ratings : r.id = k /\ r.store_id = s).rating
          ELSE 0)
RECURSIVE CountUpTo(_, _)
CountUpTo(s, k) ==
  IF k = 0 THEN 0
  ELSE CountUpTo(s, k - 1)
       + (IF \E r \in ratings : r.id = k /\ r.store_id = s THEN 1 ELSE 0)

\* C5: a read of store_ratings returns, for every store that has ratings
\* r1..rn at that moment, one row with total_ratings = n and average_rating
\* = (r1+...+rn)/n.
C5_AverageIsMeanOfCurrentRatings ==
  resp.op = "store_ratings.select" =>
    \A s \in stores :
      LET n == CountUpTo(s.id, nextRatingId)
          sum == SumUpTo(s.id, nextRatingId)
          rows == {v \in resp.rows : v.id = s.id}
      IN  n > 0 =>
            /\ Cardinality(rows) = 1
            /\ \A v \in rows :
                 /\ v.total_ratings = n
                 /\ v.average_rating.den > 0
                 /\ v.average_rating.num * n = sum * v.average_rating.den

\* C5 witness: the view has been read while a store holds two ratings of
\* different values, after one of them was changed by an update.
C5_Witness ==
  /\ resp.op = "store_ratings.select"
  /\ \E a, b \in ratings :
       a.store_id = b.store_id /\ a.rating # b.rating /\ a.id # b.id
  /\ \E v \in resp.rows : v.total_ratings = 2 /\ v.average_rating.den = 2

\* C6: a read of store_ratings returns, for every store without rating rows,
\* one row with average_rating = 0 and total_ratings = 0.
C6_UnratedStoreHasZeroAggregate ==
  resp.op = "store_ratings.select" =>
    \A s \in stores :
      RatingsOfStore(s.id) = {} =>
        /\ Cardinality({v \in resp.rows : v.id = s.id}) = 1
        /\ \A v \in resp.rows :
             v.id = s.id => (v.average_rating = Ratio(0, 1) /\ v.total_ratings = 0)

\* C6 witness: the view has been read with one store whose ratings were all
\* deleted and one store never rated.
C6_Witness ==
  /\ resp.op = "store_ratings.select"
  /\ Cardinality(stores) = 2
  /\ ratings = {}
  /\ nextRatingId > 1

\* --------------------------------------- statements: user_roles, profiles
\* UNIQUE(user_id, role): a set of [user_id, role] rows holds no duplicate,
\* so an insert or update that would produce one is what violates it.
\* The FOR ALL policy's USING expression is also the WITH CHECK of the rows
\* written.  has_role is STABLE: inside a statement it reads user_roles as the
\* statement found it.

\* INSERT INTO user_roles (user_id, role)
RolesInsertResult(uid, vals) ==
  LET fail(code) == [status |-> code, user_roles |-> user_roles]
  IN  IF ~RolesWritePolicy(uid, vals) THEN fail(RlsViolation)
      ELSE IF vals \in user_roles THEN fail(UniqueViolation)
      ELSE IF vals.user_id \notin AuthIds THEN fail(FkViolation)
      ELSE [status |-> OK, user_roles |-> user_roles \cup {vals}]

\* (mutation: the check of the rows written sees the roles as the update
\* leaves them, so an admin cannot write away its own system_admin row)
RolesUpdateResultChecksAfter(uid, f, p) ==
  LET targets == {r \in user_roles : /\ RolesSelectPolicy(uid, r)
                                     /\ Matches(r, f)
                                     /\ RolesWritePolicy(uid, r)}
      news == {ApplyPatch(r, p) : r \in targets}
      rest == user_roles \ targets
      fail(code) == [status |-> code, user_roles |-> user_roles]
  IN  IF targets # {} /\ [user_id |-> uid, role |-> "system_admin"] \notin rest \cup news
        THEN fail(RlsViolation)
      ELSE IF Cardinality(rest \cup news) < Cardinality(user_roles)
        THEN fail(UniqueViolation)
      ELSE IF \E r \in news : r.user_id \notin AuthIds THEN fail(FkViolation)
      ELSE [status |-> OK, user_roles |-> rest \cup news]

\* UPDATE user_roles SET p WHERE f
RolesUpdateResult(uid, f, p) ==
  LET targets == {r \in user_roles : /\ RolesSelectPolicy(uid, r)
                                     /\ Matches(r, f)
                                     /\ RolesWritePolicy(uid, r)}
      news == {ApplyPatch(r, p) : r \in targets}
      rest == user_roles \ targets
      fail(code) == [status |-> code, user_roles |-> user_roles]
  IN  IF \E r \in news : ~RolesWritePolicy(uid, r) THEN fail(RlsViolation)
      ELSE IF Cardinality(rest \cup news) < Cardinality(user_roles)
        THEN fail(UniqueViolation)
      ELSE IF \E r \in news : r.user_id \notin AuthIds THEN fail(FkViolation)
      ELSE [status |-> OK, user_roles |-> rest \cup news]

\* DELETE FROM user_roles WHERE f
RolesDeleteResult(uid, f) ==
  LET targets == {r \in user_roles : /\ RolesSelectPolicy(uid, r)
                                     /\ Matches(r, f)
                                     /\ RolesWritePolicy(uid, r)}
  IN  [status |-> OK, user_roles |-> user_roles \ targets]

\* SELECT ... FROM profiles WHERE id IN ids: the rows the SELECT policies show.

ProfilesSelectResult(uid, ids) ==
  {q \in profiles : ProfilesSelectPolicy(uid, q) /\ q.id \in ids}

\* (mutation: the first row when there are several, as .limit(1) would give)
StoreRatingsFirst(uid) ==
  LET rows == {v \in store_ratings : SqlEq(v.owner_id, uid)}
  IN  IF rows # {} THEN <<CHOOSE v \in rows : TRUE>> ELSE <<>>

\* SELECT * FROM store_ratings WHERE owner_id = uid, .single(): the row when
\* there is exactly one, otherwise no data.
StoreRatingsSingle(uid) ==
  LET rows == {v \in store_ratings : SqlEq(v.owner_id, uid)}
  IN  IF Cardinality(rows) = 1 THEN <<CHOOSE v \in rows : TRUE>> ELSE <<>>

\* ------------------------------------------------------------- actions
\* Inputs of the user_roles statements: the users named, and the filters
\* (.eq('user_id', id) as the dashboards write it, or by role).
RoleUserInputs == {"u2", "u3"}
RoleVals == [user_id : RoleUserInputs, role : AppRoles]
RoleFilters == [user_id : RoleUserInputs] \cup {[role |-> "normal_user"]}
RolePatches == [role : AppRoles]
\* Inputs of .in('id', ids)
IdListInputs == {{"u2"}, {"u2", "u3"}, {"u1", "u2", "u3"}}

\* supabase.from('user_roles').insert(vals) as uid
RoleInsert(uid, vals) ==
  /\ LET res == RolesInsertResult(uid, vals)
     IN  /\ user_roles' = res.user_roles
         /\ resp' = Resp("user_roles.insert", uid, res.status, {})
  /\ UNCHANGED <<auth_users, profiles, stores, ratings, nextRatingId,
                 nextStoreId, now, uivars>>

\* supabase.from('user_roles').update(p).match(f) as uid
RoleUpdate(uid, f, p) ==
  /\ LET res == RolesUpdateResult(uid, f, p)
     IN  /\ user_roles' = res.user_roles
         /\ resp' = Resp("user_roles.update", uid, res.status, {})
  /\ UNCHANGED <<auth_users, profiles, stores, ratings, nextRatingId,
                 nextStoreId, now, uivars>>

\* supabase.from('user_roles').delete().match(f) as uid
RoleDelete(uid, f) ==
  /\ LET res == RolesDeleteResult(uid, f)
     IN  /\ user_roles' = res.user_roles
         /\ resp' = Resp("user_roles.delete", uid, res.status, {})
  /\ UNCHANGED <<auth_users, profiles, stores, ratings, nextRatingId,
                 nextStoreId, now, uivars>>

\* supabase.from('profiles').select('*') as uid
ProfileSelectAll(uid) ==
  /\ resp' = Resp("profiles.select", uid, OK, ProfilesSelectResult(uid, UserIds))
  /\ UNCHANGED <<dbvars, uivars>>

\* supabase.from('profiles').select(...).in('id', ids) as uid
ProfileSelectIn(uid, ids) ==
  /\ resp' = Resp("profiles.select.in", uid, OK, ProfilesSelectResult(uid, ids))
  /\ UNCHANGED <<dbvars, uivars>>

\* StoreOwnerDashboard mounts for a signed-in user: useEffect runs
\* fetchStoreData, which awaits three queries in turn.
SOD_Mount(u) ==
  /\ owner_dash.pc \in {"unmounted", "done"}
  /\ owner_dash' = [NoOwnerDash EXCEPT !.user = u, !.pc = "store"]
  /\ UNCHANGED <<dbvars, resp, user_dash, api, admin_dash>>

\* store_ratings .eq('owner_id', user.id).single(); if (storeData) setStoreInfo
SOD_FetchStore ==
  /\ owner_dash.pc = "store"
  /\ LET storeData == StoreRatingsSingle(owner_dash.user)
     IN  /\ owner_dash' =
              IF storeData # <<>>
              THEN [owner_dash EXCEPT !.storeInfo = storeData, !.pc = "ratings"]
              ELSE [owner_dash EXCEPT !.loading = FALSE, !.pc = "done"]
         /\ resp' = Resp("store_ratings.single", owner_dash.user, OK, {})
  /\ UNCHANGED <<dbvars, user_dash, api, admin_dash>>

\* ratings .eq('store_id', storeData.id)
SOD_FetchRatings ==
  /\ owner_dash.pc = "ratings"
  /\ LET ratingsData == {r \in ratings : /\ RatingsSelectPolicy(owner_dash.user, r)
                                         /\ r.store_id = owner_dash.storeInfo[1].id}
     IN  /\ owner_dash' = [owner_dash EXCEPT !.ratingsData = ratingsData,
                                             !.pc = "profiles"]
         /\ resp' = Resp("ratings.select", owner_dash.user, OK, ratingsData)
  /\ UNCHANGED <<dbvars, user_dash, api, admin_dash>>

\* profiles .in('id', userIds); formattedRatings; setRatings; setLoading(false)
SOD_FetchProfiles ==
  /\ owner_dash.pc = "profiles"
  /\ LET userIds == {r.user_id : r \in owner_dash.ratingsData}
         profilesData == ProfilesSelectResult(owner_dash.user, userIds)
         nameOf(u) == IF \E q \in profilesData : q.id = u
                      THEN (CHOOSE q \in profilesData : q.id = u).name
                      ELSE "Unknown"
     IN  /\ owner_dash' =
              [owner_dash EXCEPT
                 !.profilesData = profilesData,
                 !.ratings = {[id |-> r.id, rating |-> r.rating,
                               user_id |-> r.user_id,
                               user_name |-> nameOf(r.user_id)]
                              : r \in owner_dash.ratingsData},
                 !.loading = FALSE,
                 !.pc = "done"]
         /\ resp' = Resp("profiles.select.in", owner_dash.user, OK, profilesData)
  /\ UNCHANGED <<dbvars, user_dash, api, admin_dash>>

\* -------------------------------- specification: roles and profile reads
\* The seeded database with s1 rated by u2 and by its owner u3.
InitAccess ==
  /\ SeededDb
  /\ ratings = {[id |-> 1, user_id |-> "u2", store_id |-> "s1", rating |-> 5,
                 updated_at |-> 0],
                [id |-> 2, user_id |-> "u3", store_id |-> "s1", rating |-> 2,
                 updated_at |-> 0]}
  /\ nextRatingId = 3
  /\ owner_dash = NoOwnerDash
  /\ user_dash = NoUserDash
  /\ admin_dash = NoAdminDash

NextAccess ==
  \/ \E uid \in Callers, vals \in RoleVals : RoleInsert(uid, vals)
  \/ \E uid \in Callers, f \in RoleFilters, p \in RolePatches : RoleUpdate(uid, f, p)
  \/ \E uid \in Callers, f \in RoleFilters : RoleDelete(uid, f)
  \/ \E uid \in Callers : ProfileSelectAll(uid)
  \/ \E uid \in Callers, ids \in IdListInputs : ProfileSelectIn(uid, ids)
  \/ SOD_Mount("u3")
  \/ SOD_FetchStore
  \/ SOD_FetchRatings
  \/ SOD_FetchProfiles

SpecAccess == InitAccess /\ [][NextAccess]_vars

\* ------------------------------------------- claims: roles and profiles
IsAdmin(uid) == has_role(uid, "system_admin")
OwnProfile(uid) == {q \in profiles : q.id = uid}

\* C2: a read of profiles by a caller without the system_admin role returns
\* no row of another user (and no error): every row returned has the caller's
\* id, and an unfiltered read returns exactly the caller's own row.  The same
\* holds of StoreOwnerDashboard.fetchStoreData: the profiles it gets for the
\* users who rated the store are the owner's own at most, and every other
\* rater is listed as "Unknown".
C2_NonAdminReadsOnlyOwnProfile ==
  (resp.op \in {"profiles.select", "profiles.select.in"} /\ ~IsAdmin(resp.caller))
    => /\ resp.status = OK
       /\ resp.rows \subseteq OwnProfile(resp.caller)
       /\ resp.op = "profiles.select" => resp.rows = OwnProfile(resp.caller)
       /\ (owner_dash.pc = "done" /\ owner_dash.user = resp.caller
             /\ owner_dash.profilesData = resp.rows /\ owner_dash.storeInfo # <<>>)
            => \A r \in owner_dash.ratings :
                 r.user_id # owner_dash.user => r.user_name = "Unknown"

\* C2 witness: the store owner's dashboard has fetched the profiles of the
\* two users who rated the store (another user and the owner) and got back
\* the owner's own row only.
C2_Witness ==
  /\ owner_dash.pc = "done"
  /\ ~IsAdmin(owner_dash.user)
  /\ resp.op = "profiles.select.in"
  /\ resp.caller = owner_dash.user
  /\ {r.user_id : r \in owner_dash.ratingsData} = {"u2", "u3"}
  /\ owner_dash.profilesData = OwnProfile("u3")
  /\ \E r \in owner_dash.ratings : r.user_id = "u2" /\ r.user_name = "Unknown"

\* C3: every step that changes user_roles is a statement of a caller who
\* holds system_admin when the statement starts.
C3_OnlyAdminsWriteRoles ==
  [][user_roles' # user_roles => IsAdmin(resp'.caller)]_vars

\* C3 witness: a signed-in caller without system_admin has tried to insert a
\* role row and was refused, after an admin changed some role.
C3_Witness ==
  /\ resp.op = "user_roles.insert"
  /\ resp.caller # NULL
  /\ ~IsAdmin(resp.caller)
  /\ resp.status = RlsViolation
  /\ [user_id |-> "u2", role |-> "normal_user"] \notin user_roles

\* ------------------------------------------------- NormalUserDashboard
Dash(c) == user_dash[c]

\* fetchStores, from its call to the first await: if (!user) return; the query
\* on store_ratings is sent.
StartFetch(d) ==
  IF d.user = NULL THEN d
  ELSE [d EXCEPT !.fetches = Append(@, [stage |-> "stores", storesData |-> {}])]

\* userRatingMap.get(store.id) over the rows of the user's ratings
UserRatingOf(userRatings, sid) ==
  IF \E r \in userRatings : r.store_id = sid
  THEN (CHOOSE r \in userRatings : r.store_id = sid).rating
  ELSE NoRating

\* storesWithUserRatings
StoresWithUserRatings(storesData, userRatings) ==
  {[id |-> v.id, owner_id |-> v.owner_id, average_rating |-> v.average_rating,
    total_ratings |-> v.total_ratings,
    user_rating |-> UserRatingOf(userRatings, v.id)] : v \in storesData}

RemoveAt(seq, i) == [j \in 1..(Len(seq) - 1) |-> IF j < i THEN seq[j] ELSE seq[j + 1]]

\* The page opens for signed-in user u: useEffect calls fetchStores.
NUD_Mount(c, u) ==
  /\ Dash(c).user = NULL
  /\ user_dash' = [user_dash EXCEPT ![c] = StartFetch([NoUserDash[c] EXCEPT !.user = u])]
  /\ UNCHANGED <<dbvars, resp, owner_dash, api, admin_dash>>

\* fetchStores, first await: store_ratings select('*') answers.
NUD_FetchStoresData(c, i) ==
  /\ i \in DOMAIN Dash(c).fetches
  /\ Dash(c).fetches[i].stage = "stores"
  /\ user_dash' = [user_dash EXCEPT ![c].fetches[i] =
                     [stage |-> "ratings", storesData |-> store_ratings]]
  /\ UNCHANGED <<dbvars, resp, owner_dash, api, admin_dash>>

\* fetchStores, second await: ratings .eq('user_id', user.id) answers;
\* setStores(storesWithUserRatings); finally setLoading(false).
NUD_FetchUserRatings(c, i) ==
  /\ i \in DOMAIN Dash(c).fetches
  /\ Dash(c).fetches[i].stage = "ratings"
  /\ LET userRatings == {r \in ratings : /\ RatingsSelectPolicy(Dash(c).user, r)
                                         /\ r.user_id = Dash(c).user}
     IN  /\ user_dash' = [user_dash EXCEPT
               ![c].stores = StoresWithUserRatings(Dash(c).fetches[i].storesData,
                                                    userRatings),
               ![c].loading = FALSE,
               ![c].fetches = RemoveAt(@, i)]
  /\ UNCHANGED <<dbvars, resp, owner_dash, api, admin_dash>>

\* openRatingDialog(store), from a store card (shown once loading is over and
\* while the modal dialog is closed).
NUD_OpenRatingDialog(c, store) ==
  /\ ~Dash(c).loading
  /\ Dash(c).selectedStore = <<>>
  /\ store \in Dash(c).stores
  /\ user_dash' = [user_dash EXCEPT
        ![c].selectedStore = <<store>>,
        ![c].rating = IF store.user_rating # NoRating THEN store.user_rating ELSE 0]
  /\ UNCHANGED <<dbvars, resp, owner_dash, api, admin_dash>>

\* A click on a star of the open dialog: setRating(starValue).
NUD_SetRating(c, starValue) ==
  /\ Dash(c).selectedStore # <<>>
  /\ Dash(c).rating # starValue
  /\ user_dash' = [user_dash EXCEPT ![c].rating = starValue]
  /\ UNCHANGED <<dbvars, resp, owner_dash, api, admin_dash>>

\* Cancel, or the dialog's onOpenChange: setSelectedStore(null).
NUD_CloseDialog(c) ==
  /\ Dash(c).selectedStore # <<>>
  /\ user_dash' = [user_dash EXCEPT ![c].selectedStore = <<>>]
  /\ UNCHANGED <<dbvars, resp, owner_dash, api, admin_dash>>

\* The branch of handleRatingSubmit: if (selectedStore.user_rating)
SubmitPath(store) == IF store.user_rating # NoRating THEN "update" ELSE "insert"

\* handleRatingSubmit up to its await: the guard, the branch, the request.
\* (At most MaxFetch fetchStores and one submission in flight per dashboard.)
NUD_HandleRatingSubmit(c) ==
  /\ Dash(c).selectedStore # <<>>
  /\ Dash(c).user # NULL
  /\ Dash(c).rating # 0
  /\ Dash(c).submit = <<>>
  /\ Len(Dash(c).fetches) < MaxFetch
  /\ user_dash' = [user_dash EXCEPT ![c].submit =
        <<[path |-> SubmitPath(Dash(c).selectedStore[1]),
           store_id |-> Dash(c).selectedStore[1].id,
           rating |-> Dash(c).rating]>>]
  /\ UNCHANGED <<dbvars, resp, owner_dash, api, admin_dash>>

\* handleRatingSubmit after a statement without error: toast, fetchStores()
\* (not awaited), setSelectedStore(null), setRating(0).
AfterSubmitOk(d) ==
  StartFetch([d EXCEPT !.toast = "success", !.error_message = NULL, !.submit = <<>>,
                       !.selectedStore = <<>>, !.rating = 0])

\* handleRatingSubmit after an error: throw, and the catch's toast with
\* error.message; the dialog stays as it is and nothing is sent again.
\* (mutation: the failed request is sent again)
AfterSubmitErrorRetry(d, error) == [d EXCEPT !.toast = "error", !.error_message = error]
AfterSubmitError(d, error) ==
  [d EXCEPT !.toast = "error", !.error_message = error, !.submit = <<>>]

\* The statement of a submission in flight runs and handleRatingSubmit
\* resumes with its { error }.
NUD_SubmitCompletes(c) ==
  /\ Dash(c).submit # <<>>
  /\ LET req == Dash(c).submit[1]
         uid == Dash(c).user
         res == IF req.path = "update"
                THEN RatingsUpdateResult(uid, [user_id |-> uid, store_id |-> req.store_id],
                                         [rating |-> req.rating])
                ELSE RatingsInsertResult(uid, [user_id |-> uid, store_id |-> req.store_id,
                                               rating |-> req.rating])
     IN  /\ (req.path = "insert" /\ res.status = OK) => nextRatingId <= MaxRatingId
         /\ ratings' = res.ratings
         /\ nextRatingId' = IF req.path = "insert" /\ res.status = OK
                            THEN nextRatingId + 1 ELSE nextRatingId
         /\ user_dash' = [user_dash EXCEPT ![c] =
               IF res.status = OK THEN AfterSubmitOk(@)
               ELSE AfterSubmitError(@, res.status)]
  /\ UNCHANGED <<auth_users, profiles, user_roles, stores, nextStoreId, now, resp,
                 owner_dash, api, admin_dash>>

\* ------------------------------------ specification: rating submission
\* The seeded database with s1 rated 5 by its owner u3; user u2 opens the
\* dashboard in two tabs.
InitSubmit ==
  /\ SeededDb
  /\ ratings = {[id |-> 1, user_id |-> "u3", store_id |-> "s1", rating |-> 5,
                 updated_at |-> 0]}
  /\ nextRatingId = 2
  /\ owner_dash = NoOwnerDash
  /\ user_dash = NoUserDash
  /\ admin_dash = NoAdminDash

NextSubmit ==
  \/ \E c \in Clients : NUD_Mount(c, "u2")
  \/ \E c \in Clients, i \in 1..MaxFetch : NUD_FetchStoresData(c, i)
  \/ \E c \in Clients, i \in 1..MaxFetch : NUD_FetchUserRatings(c, i)
  \/ \E c \in Clients : \E store \in Dash(c).stores : NUD_OpenRatingDialog(c, store)
  \/ \E c \in Clients, v \in StarInputs : NUD_SetRating(c, v)
  \/ \E c \in Clients : NUD_CloseDialog(c)
  \/ \E c \in Clients : NUD_HandleRatingSubmit(c)
  \/ \E c \in Clients : NUD_SubmitCompletes(c)

SpecSubmit == InitSubmit /\ [][NextSubmit]_vars

\* ------------------------------------------- claims: rating submission
\* Dashboard c's submission in flight completes in this step.
SubmitCompletesFor(c) == Dash(c).submit # <<>> /\ user_dash'[c].submit = <<>>
OnlyDashboard(c) == \A o \in Clients \ {c} : Dash(o).user = NULL

\* C7 as stated: when a user who has submitted a rating for a store through
\* handleRatingSubmit submits again for that store (from the one dashboard
\* open), then once the second submission completes there is exactly one row
\* for the pair, it holds the resubmitted value, the store has as many ratings
\* as before and the view's average is the mean with the new value in place
\* of the old.
C7_ResubmitOverwrites ==
  [][\A c \in Clients :
       (/\ SubmitCompletesFor(c)
        /\ OnlyDashboard(c)
        /\ RatingsOf(Dash(c).user, Dash(c).submit[1].store_id) # {})
       => LET u == Dash(c).user
              s == Dash(c).submit[1].store_id
              v2 == Dash(c).submit[1].rating
              v1 == (CHOOSE r \in RatingsOf(u, s) : TRUE).rating
              n == Cardinality(RatingsOfStore(s))
              sum == SumUpTo(s, nextRatingId)
          IN  /\ Cardinality({r \in ratings' : r.user_id = u /\ r.store_id = s}) = 1
              /\ \A r \in ratings' : (r.user_id = u /\ r.store_id = s) => r.rating = v2
              /\ \A w \in store_ratings' :
                   w.id = s => /\ w.total_ratings = n
                               /\ w.average_rating = Ratio(sum - v1 + v2, n)]_vars

\* C8: when a dashboard's submission on the insert path completes and the
\* pair has no row, the row is inserted with the submitted value; when the
\* pair already has a row (another submission's insert got there first), the
\* insert is rejected with a uniqueness violation, the table stays as it
\* was, the dashboard shows the error and sends nothing again.  At no time is
\* there more than one row for the pair.
C8_RacingInsertsOneWins ==
  /\ []AtMostOneRatingPerPair
  /\ [][\A c \in Clients :
          (SubmitCompletesFor(c) /\ Dash(c).submit[1].path = "insert")
          => LET u == Dash(c).user
                 req == Dash(c).submit[1]
             IN  IF RatingsOf(u, req.store_id) = {}
                 THEN /\ user_dash'[c].toast = "success"
                      /\ \E r \in ratings' \ ratings :
                           /\ r.user_id = u /\ r.store_id = req.store_id
                           /\ r.rating = req.rating
                           /\ ratings' = ratings \cup {r}
                 ELSE /\ ratings' = ratings
                      /\ user_dash'[c].toast = "error"
                      /\ user_dash'[c].error_message = UniqueViolation
                      /\ user_dash'[c].fetches = Dash(c).fetches]_vars
  /\ [][\A c \in Clients :
          (Dash(c).submit # <<>> /\ Dash(c).toast # "error"
             /\ user_dash'[c].toast = "error")
          => user_dash'[c].submit = <<>>]_vars

\* C8 witness: both dashboards of the user submitted on the insert path; the
\* first got its row in, the second holds another value and was refused.
C8_Witness ==
  /\ Dash("c1").toast = "success"
  /\ Dash("c2").toast = "error"
  /\ Dash("c2").submit = <<>>
  /\ Dash("c2").selectedStore # <<>>
  /\ Dash("c2").selectedStore[1].user_rating = NoRating
  /\ Dash("c2").error_message = UniqueViolation
  /\ \E r \in ratings : r.user_id = "u2" /\ r.rating # Dash("c2").rating
  /\ Cardinality(RatingsOf("u2", "s1")) = 1

\* ------------------------------------------------------- registration
MaxRequests == 1

InvalidEnumValue == "22P02"

\* COALESCE(x, d)
Coalesce(x, d) == IF x = NULL THEN d ELSE x

\* raw_user_meta_data ->> key: NULL when the metadata has no such key.
MetaText(meta, key) == meta[key]

\* (mutation: the name default is the empty string)
handle_new_user_NameDefaultEmpty(new_row) ==
  [status |-> IF new_row.email = NULL THEN NotNullViolation ELSE OK,
   profiles |-> IF new_row.email = NULL THEN profiles ELSE profiles \cup
     {[id |-> new_row.id, name |-> Coalesce(MetaText(new_row.meta, "name"), ""),
       email |-> new_row.email,
       address |-> Coalesce(MetaText(new_row.meta, "address"), ""),
       updated_at |-> now]},
   user_roles |-> IF new_row.email = NULL THEN user_roles
                  ELSE user_roles \cup {[user_id |-> new_row.id, role |-> "normal_user"]}]

\* handle_new_user() for the inserted auth.users row: the two inserts with
\* the constraints of their tables, run as the function's owner (SECURITY
\* DEFINER: no policy applies).  The first error ends the function.
handle_new_user(new_row) ==
  LET p == [id |-> new_row.id,
            name |-> Coalesce(MetaText(new_row.meta, "name"), "Unknown"),
            email |-> new_row.email,
            address |-> Coalesce(MetaText(new_row.meta, "address"), ""),
            updated_at |-> now]
      r == [user_id |-> new_row.id, role |-> "normal_user"]
      fail(code) == [status |-> code, profiles |-> profiles, user_roles |-> user_roles]
  IN  IF p.name = NULL \/ p.email = NULL \/ p.address = NULL THEN fail(NotNullViolation)
      ELSE IF \E q \in profiles : q.id = p.id THEN fail(UniqueViolation)
      ELSE IF r \in user_roles THEN fail(UniqueViolation)
      ELSE [status |-> OK, profiles |-> profiles \cup {p},
            user_roles |-> user_roles \cup {r}]

\* (mutation: the trigger's error does not undo the insert into auth.users)
AuthUsersInsertNoRollback(email, meta) ==
  LET new_row == [id |-> UserOf(Cardinality(auth_users) + 1), email |-> email, meta |-> meta]
      t == handle_new_user(new_row)
  IN  [status |-> t.status, user |-> new_row.id,
       auth_users |-> auth_users \cup {new_row},
       profiles |-> t.profiles, user_roles |-> t.user_roles]

\* INSERT INTO auth.users with the AFTER INSERT trigger on_auth_user_created:
\* the row and the trigger's rows are one statement; the trigger's error
\* fails the statement and nothing of it remains.
AuthUsersInsertResult(email, meta) ==
  LET new_row == [id |-> UserOf(Cardinality(auth_users) + 1), email |-> email, meta |-> meta]
      t == handle_new_user(new_row)
  IN  IF t.status = OK
      THEN [status |-> OK, user |-> new_row.id,
            auth_users |-> auth_users \cup {new_row},
            profiles |-> t.profiles, user_roles |-> t.user_roles]
      ELSE [status |-> t.status, user |-> NULL,
            auth_users |-> auth_users,
            profiles |-> profiles, user_roles |-> user_roles]

\* (mutation: the role update reports success and writes nothing)
RolesUpdateAsServiceRoleNoop(f, p) ==
  [status |-> OK, user_roles |-> user_roles]

\* (mutation: the role update adds the new role beside the old one)
RolesUpdateAsServiceRoleAddsRow(f, p) ==
  [status |-> OK,
   user_roles |-> user_roles \cup {ApplyPatch(r, p) : r \in {q \in user_roles : Matches(q, f)}}]

\* UPDATE user_roles SET p WHERE f with the service role key, which no
\* policy restricts.
RolesUpdateAsServiceRole(f, p) ==
  LET targets == {r \in user_roles : Matches(r, f)}
      news == {ApplyPatch(r, p) : r \in targets}
      rest == user_roles \ targets
      fail(code) == [status |-> code, user_roles |-> user_roles]
  IN  IF \E r \in news : r.role \notin AppRoles THEN fail(InvalidEnumValue)
      ELSE IF Cardinality(rest \cup news) < Cardinality(user_roles)
        THEN fail(UniqueViolation)
      ELSE [status |-> OK, user_roles |-> rest \cup news]

EmailInputs == {"d@x", NULL}
NameInputs == {NULL, "Jane", ""}
AddressInputs == {NULL, "D St"}
MetaInputs == [name : NameInputs, address : AddressInputs]
MethodInputs == {"POST", "GET"}
RoleInputs == {NULL, "normal_user", "store_owner", "owner"}
PasswordInputs == {"pw", NULL}
\* req.body: an object, a string that JSON.parse takes or throws on, or no
\* object at all (undefined, null); is_object tells what the body is once a
\* string that parses has been parsed.  A key the object lacks reads NULL.
BodyInputs ==
  [is_string : {FALSE}, parses : {TRUE}, is_object : {TRUE}, name : NameInputs,
   email : EmailInputs, password : {"pw"}, address : AddressInputs, role : RoleInputs]
  \cup [is_string : {FALSE}, parses : {TRUE}, is_object : {TRUE}, name : {"Jane"},
        email : EmailInputs, password : {NULL}, address : {"D St"}, role : {NULL}]
  \cup [is_string : {TRUE}, parses : BOOLEAN, is_object : {TRUE}, name : {"Jane"},
        email : {"d@x"}, password : {"pw"}, address : {NULL}, role : {"store_owner"}]
  \cup [is_string : BOOLEAN, parses : {TRUE}, is_object : {FALSE}, name : {NULL},
        email : {NULL}, password : {NULL}, address : {NULL}, role : {NULL}]

\* req: a POST with any of the bodies, or another method.
RequestInputs ==
  [method : {"POST"}, body : BodyInputs]
  \cup [method : MethodInputs \ {"POST"}, body : {b \in BodyInputs : b.role = "store_owner"}]

\* An identity is inserted into auth.users (sign-up, or any other way the
\* authentication service creates one).
AuthUsersInsert(email, meta) ==
  /\ LET res == AuthUsersInsertResult(email, meta)
     IN  /\ res.status = OK => Cardinality(auth_users) < MaxUsers
         /\ auth_users' = res.auth_users
         /\ profiles' = res.profiles
         /\ user_roles' = res.user_roles
         /\ resp' = Resp("auth.users.insert", NULL, res.status, {})
  /\ UNCHANGED <<stores, ratings, nextRatingId, nextStoreId, now, uivars>>

\* The error of the authentication service for a user it does not accept.
ValidationFailed == "validation_failed"

\* supabase.auth.admin.createUser({ email, password, user_metadata }) with
\* the service role key: the insert into auth.users with its trigger.  What
\* the service does without a password is not the repository's to decide:
\* it creates the user or refuses.
CreateUserResults(email, password, meta) ==
  {AuthUsersInsertResult(email, meta)}
  \cup (IF password = NULL
        THEN {[status |-> ValidationFailed, user |-> NULL, auth_users |-> auth_users,
               profiles |-> profiles, user_roles |-> user_roles]}
        ELSE {})

\* (mutation: every method is served)
MethodAllowedAny(method) == TRUE

\* req.method !== 'POST' is answered with 405.
MethodAllowed(method) == method = "POST"

\* The provisioning handler from the request to the return of
\* auth.admin.createUser: what it answers and leaves behind, one outcome for
\* each thing the authentication service may do.  The destructuring of a
\* body that is no object throws outside the try: the handler sends nothing
\* and the framework answers 500.  With a role to set, the handler goes on
\* to the role update (a request in flight in api) and has not answered yet.
handlerOutcomes(method, body) ==
  LET same(status, rows) ==
        [resp |-> Resp("api.create-user", NULL, status, rows),
         auth_users |-> auth_users, profiles |-> profiles,
         user_roles |-> user_roles, api |-> api]
      created(res) ==
        [resp |-> IF body.role # NULL /\ body.role # "normal_user"
                  THEN Resp("auth.admin.createUser", NULL, OK, {res.user})
                  ELSE Resp("api.create-user", NULL, "200", {res.user}),
         auth_users |-> res.auth_users, profiles |-> res.profiles,
         user_roles |-> res.user_roles,
         api |-> IF body.role # NULL /\ body.role # "normal_user"
                 THEN Append(api, [user_id |-> res.user, role |-> body.role])
                 ELSE api]
  IN  IF ~MethodAllowed(method) THEN {same("405", {"Method not allowed"})}
      ELSE IF body.is_string /\ ~body.parses THEN {same("400", {"Invalid JSON format"})}
      ELSE IF ~body.is_object THEN {same("500", {})}
      ELSE {IF res.status # OK THEN same("400", {res.status}) ELSE created(res) :
              res \in CreateUserResults(body.email, body.password,
                        [name |-> body.name, address |-> body.address])}

\* The handler takes a request and runs to its answer or to its role
\* update.  The state of the client that sent the request is the client's
\* to change.
handler(method, body) ==
  /\ Len(api) < MaxRequests
  /\ \E out \in handlerOutcomes(method, body) :
       /\ out.auth_users # auth_users => Cardinality(auth_users) < MaxUsers
       /\ auth_users' = out.auth_users
       /\ profiles' = out.profiles
       /\ user_roles' = out.user_roles
       /\ api' = out.api
       /\ resp' = out.resp
  /\ UNCHANGED <<stores, ratings, nextRatingId, nextStoreId, now, owner_dash, user_dash>>

\* (mutation: a failed role update is compensated by deleting the identity,
\* and with it its profile and role rows)
handler_RoleUpdateCompensates(i) ==
  /\ i \in 1..Len(api)
  /\ LET res == RolesUpdateAsServiceRole([user_id |-> api[i].user_id],
                                         [role |-> api[i].role])
     IN  IF res.status # OK
         THEN /\ auth_users' = {u \in auth_users : u.id # api[i].user_id}
              /\ profiles' = {q \in profiles : q.id # api[i].user_id}
              /\ user_roles' = {r \in user_roles : r.user_id # api[i].user_id}
              /\ resp' = Resp("api.create-user", NULL, "400", {res.status})
         ELSE /\ user_roles' = res.user_roles
              /\ resp' = Resp("api.create-user", NULL, "200", {api[i].user_id})
              /\ UNCHANGED <<auth_users, profiles>>
  /\ api' = RemoveAt(api, i)
  /\ UNCHANGED <<stores, ratings, nextRatingId, nextStoreId, now, owner_dash, user_dash>>

\* The provisioning handler from the role update to its response.
handler_RoleUpdate(i) ==
  /\ i \in 1..Len(api)
  /\ LET res == RolesUpdateAsServiceRole([user_id |-> api[i].user_id],
                                         [role |-> api[i].role])
     IN  /\ user_roles' = res.user_roles
         /\ resp' = IF res.status # OK
                    THEN Resp("api.create-user", NULL, "400", {res.status})
                    ELSE Resp("api.create-user", NULL, "200", {api[i].user_id})
  /\ api' = RemoveAt(api, i)
  /\ UNCHANGED <<auth_users, profiles, stores, ratings, nextRatingId, nextStoreId,
                 now, owner_dash, user_dash>>

\* A database with its first identity, promoted to system_admin.
InitRegister ==
  /\ auth_users = {[id |-> "u1", email |-> "a@x", meta |-> [name |-> "Ann", address |-> "A St"]]}
  /\ profiles = {[id |-> "u1", name |-> "Ann", email |-> "a@x", address |-> "A St",
                  updated_at |-> 0]}
  /\ user_roles = {[user_id |-> "u1", role |-> "system_admin"]}
  /\ stores = {}
  /\ ratings = {}
  /\ nextRatingId = 1
  /\ nextStoreId = 1
  /\ now = 1
  /\ resp = NoResp
  /\ owner_dash = NoOwnerDash
  /\ user_dash = NoUserDash
  /\ admin_dash = NoAdminDash
  /\ api = NoRequest

NextRegister ==
  \/ \E email \in EmailInputs, meta \in MetaInputs : AuthUsersInsert(email, meta)
  \/ \E req \in RequestInputs : handler(req.method, req.body) /\ UNCHANGED admin_dash
  \/ \E i \in 1..MaxRequests : handler_RoleUpdate(i) /\ UNCHANGED admin_dash

SpecRegister == InitRegister /\ [][NextRegister]_vars

\* ------------------------------------------------ claims: registration
ProfilesOf(uid) == {p \in profiles : p.id = uid}
RolesOf(uid) == {r.role : r \in {q \in user_roles : q.user_id = uid}}

\* C9: in every step that creates an identity U, the state after the step
\* holds exactly one profile row with id U; its email is the identity's
\* email, its name is the metadata's name, or "Unknown" when the metadata has
\* none, and its address is the metadata's address, or the empty string when
\* the metadata has none.  No identity ever has two profile rows.
C9_RegistrationCreatesOneProfile ==
  /\ [](\A u \in auth_users : Cardinality(ProfilesOf(u.id)) <= 1)
  /\ [][\A u \in auth_users' \ auth_users :
          /\ Cardinality({p \in profiles' : p.id = u.id}) = 1
          /\ \A p \in profiles' :
               p.id = u.id =>
                 /\ p \notin profiles
                 /\ p.email = u.email
                 /\ p.name = (IF u.meta.name = NULL THEN "Unknown" ELSE u.meta.name)
                 /\ p.address = (IF u.meta.address = NULL THEN "" ELSE u.meta.address)]_vars

\* C9 witness: one identity registered without name and address and one with
\* both, each with its profile.
C9_Witness ==
  /\ \E u \in auth_users :
       /\ u.meta = [name |-> NULL, address |-> NULL]
       /\ \E p \in ProfilesOf(u.id) : p.name = "Unknown" /\ p.address = "" /\ p.email = "d@x"
  /\ \E u \in auth_users :
       /\ u.meta = [name |-> "Jane", address |-> "D St"]
       /\ \E p \in ProfilesOf(u.id) : p.name = "Jane" /\ p.address = "D St"

\* C10: a step that creates an identity leaves it with its profile row and
\* with a user_roles row, of role normal_user and no other, and it creates
\* the identity only if both inserts of the trigger went through for it; a
\* registration answered with an error has created no identity, no profile
\* row and no role row; and no profile or role row ever names an identity
\* that does not exist.
C10_RegistrationIsAtomic ==
  /\ [](/\ \A p \in profiles : p.id \in AuthIds
        /\ \A r \in user_roles : r.user_id \in AuthIds)
  /\ [][\A u \in auth_users' \ auth_users :
          /\ handle_new_user(u).status = OK
          /\ \E p \in profiles' : p.id = u.id
          /\ {r.role : r \in {q \in user_roles' : q.user_id = u.id}} = {"normal_user"}]_vars
  /\ [][(\/ resp'.op = "auth.users.insert" /\ resp'.status # OK
         \/ resp'.op = "api.create-user" /\ resp'.status = "400" /\ api' = api)
        => /\ auth_users' = auth_users
           /\ profiles' = profiles
           /\ user_roles' = user_roles]_vars
  /\ [][resp'.op = "auth.users.insert" =>
          \A email \in {NULL}, meta \in MetaInputs :
            AuthUsersInsert(email, meta)
              => resp'.status = NotNullViolation /\ auth_users' = auth_users]_vars

\* C10 witness: one registration went through, with its two rows, and the
\* next, of an identity without email, failed in the trigger.
C10_Witness ==
  /\ resp.op = "auth.users.insert"
  /\ resp.status = NotNullViolation
  /\ \E u \in auth_users :
       /\ u.id # "u1"
       /\ ProfilesOf(u.id) # {}
       /\ RolesOf(u.id) = {"normal_user"}
  /\ Cardinality(auth_users) = Cardinality(profiles)

\* ------------------------------------------------------- stores table
\* (mutation: the rows an update writes are not checked)
StoresUpdateCheckNone(uid, row) == TRUE

\* The WITH CHECK of the UPDATE policies, which state none: their USING.
StoresUpdateCheck(uid, row) == StoresUpdatePolicy(uid, row)

\* UPDATE stores SET p WHERE f
StoresUpdateResult(uid, f, p) ==
  LET targets == {s \in stores : /\ StoresSelectPolicy(uid, s)
                                 /\ Matches(s, f)
                                 /\ StoresUpdatePolicy(uid, s)}
      news == {update_updated_at_column(ApplyPatch(s, p)) : s \in targets}
      after == (stores \ targets) \cup news
      fail(code) == [status |-> code, stores |-> stores, n |-> 0]
  IN  IF \E s \in news : ~StoresUpdateCheck(uid, s) THEN fail(RlsViolation)
      ELSE IF \E s \in news : s.owner_id = NULL \/ s.name = NULL
        THEN fail(NotNullViolation)
      ELSE IF \E s \in news : s.owner_id \notin AuthIds THEN fail(FkViolation)
      ELSE [status |-> OK, stores |-> after, n |-> Cardinality(targets)]

\* SELECT * FROM stores / ratings as uid
StoresSelectResult(uid) == {s \in stores : StoresSelectPolicy(uid, s)}
RatingsSelectResult(uid) == {r \in ratings : RatingsSelectPolicy(uid, r)}

OwnerInputs == {"u2", "u3"}
StoreFilters == [id : StoreInputs]
StorePatches == [owner_id : OwnerInputs] \cup [name : {"Mart"}]

\* supabase.from('stores').update(p).match(f) as uid
StoreUpdate(uid, f, p) ==
  /\ LET res == StoresUpdateResult(uid, f, p)
     IN  /\ stores' = res.stores
         /\ resp' = Resp("stores.update", uid, res.status, {})
  /\ UNCHANGED <<auth_users, profiles, user_roles, ratings, nextRatingId,
                 nextStoreId, now, uivars>>

\* supabase.from('stores').select('*') as uid
StoresSelect(uid) ==
  /\ resp' = Resp("stores.select", uid, OK, StoresSelectResult(uid))
  /\ UNCHANGED <<dbvars, uivars>>

\* supabase.from('ratings').select('*') as uid
RatingsSelect(uid) ==
  /\ resp' = Resp("ratings.select", uid, OK, RatingsSelectResult(uid))
  /\ UNCHANGED <<dbvars, uivars>>

InitStores ==
  /\ SeededDb
  /\ ratings = {[id |-> 1, user_id |-> "u2", store_id |-> "s1", rating |-> 5,
                 updated_at |-> 0]}
  /\ nextRatingId = 2
  /\ owner_dash = NoOwnerDash
  /\ user_dash = NoUserDash
  /\ admin_dash = NoAdminDash

NextStores ==
  \/ \E uid \in Callers, o \in OwnerInputs :
       StoreInsert(uid, [owner_id |-> o, name |-> "Shop"])
  \/ \E uid \in Callers, f \in StoreFilters, p \in StorePatches : StoreUpdate(uid, f, p)
  \/ \E uid \in Callers, f \in StoreFilters : StoreDelete(uid, f)
  \/ \E uid \in Callers : StoresSelect(uid)
  \/ \E uid \in Callers : RatingsSelect(uid)

SpecStores == InitStores /\ [][NextStores]_vars

\* ------------------------------------------------------ claims: stores
StoreIdsOf(rows) == {s.id : s \in rows}

\* C11 as stated, its last part: a caller whose role is normal_user changes
\* no store row, in any step.
C11_NormalUserChangesNoStore ==
  [][(has_role(resp'.caller, "normal_user") /\ ~IsAdmin(resp'.caller))
       => stores' = stores]_vars

\* C11 amended: a store row appears or disappears only in a step of a caller
\* who holds system_admin; a store row changes only in a step of a caller who
\* holds system_admin or whose id is the row's owner_id before the step.  So
\* a caller who is neither changes no store row, whatever the caller's role;
\* a normal_user whom a store names as owner can update that store.
C11_StoresWrittenByAdminOrOwner ==
  /\ [][\A s \in stores' : s.id \notin StoreIdsOf(stores) => IsAdmin(resp'.caller)]_vars
  /\ [][\A s \in stores : s.id \notin StoreIdsOf(stores') => IsAdmin(resp'.caller)]_vars
  /\ [][\A s \in stores : (s.id \in StoreIdsOf(stores') /\ s \notin stores')
          => (IsAdmin(resp'.caller) \/ resp'.caller = s.owner_id)]_vars
  /\ [][\A uid \in Callers, f \in StoreFilters, p \in StorePatches :
          (/\ ~IsAdmin(uid)
           /\ \A s \in stores : Matches(s, f) => s.owner_id # uid)
          => /\ StoresUpdateResult(uid, f, p).stores = stores
             /\ StoresDeleteResult(uid, f).stores = stores]_vars

\* C11 witness: the admin gave a second store to the normal_user u2, that
\* store has been renamed, and an update by the store_owner u3, who owns the
\* first store only, has just gone through without changing a row.
C11_Witness ==
  /\ has_role("u2", "normal_user")
  /\ \E s \in stores : s.id = "s2" /\ s.owner_id = "u2" /\ s.name = "Mart"
  /\ \E s \in stores : s.id = "s1" /\ s.owner_id = "u3" /\ s.name = "Shop"
  /\ resp.op = "stores.update"
  /\ resp.caller = "u3"
  /\ resp.status = OK
  /\ nextStoreId = 3

\* C12: a select on stores, and a select on ratings, returns every row of
\* the table to every caller: a signed-in one of any role, or none.
C12_StoresAndRatingsReadableByAll ==
  /\ [](\A uid \in Callers : /\ StoresSelectResult(uid) = stores
                            /\ RatingsSelectResult(uid) = ratings)
  /\ [][resp'.op = "stores.select" => resp'.rows = stores']_vars
  /\ [][resp'.op = "ratings.select" => resp'.rows = ratings']_vars

\* C12 witness: the anonymous caller has just read both of two stores.
C12_Witness ==
  /\ resp.op = "stores.select"
  /\ resp.caller = NULL
  /\ Cardinality(resp.rows) = 2
  /\ resp.rows = stores
  /\ ratings # {}

\* ----------------------------------------------------- profiles table
\* The WITH CHECK of the UPDATE policies, which state none: their USING.
ProfilesUpdateCheck(uid, row) == ProfilesUpdatePolicy(uid, row)

\* UPDATE profiles SET p WHERE f
ProfilesUpdateResult(uid, f, p) ==
  LET targets == {r \in profiles : /\ ProfilesSelectPolicy(uid, r)
                                   /\ Matches(r, f)
                                   /\ ProfilesUpdatePolicy(uid, r)}
      news == {update_updated_at_column(ApplyPatch(r, p)) : r \in targets}
      after == (profiles \ targets) \cup news
      fail(code) == [status |-> code, profiles |-> profiles, n |-> 0]
  IN  IF \E r \in news : ~ProfilesUpdateCheck(uid, r) THEN fail(RlsViolation)
      ELSE IF \E r \in news : r.name = NULL \/ r.email = NULL \/ r.address = NULL
        THEN fail(NotNullViolation)
      ELSE IF Cardinality({r.id : r \in after}) < Cardinality(after)
        THEN fail(UniqueViolation)
      ELSE IF \E r \in news : r.id \notin AuthIds THEN fail(FkViolation)
      ELSE [status |-> OK, profiles |-> after, n |-> Cardinality(targets)]

\* INSERT INTO profiles (id, name, email, address)
ProfilesInsertResult(uid, vals) ==
  LET new == [id |-> vals.id, name |-> vals.name, email |-> vals.email,
              address |-> vals.address, updated_at |-> now]
      fail(code) == [status |-> code, profiles |-> profiles]
  IN  IF ~ProfilesInsertPolicy(uid, new) THEN fail(RlsViolation)
      ELSE IF new.id = NULL \/ new.name = NULL \/ new.email = NULL \/ new.address = NULL
        THEN fail(NotNullViolation)
      ELSE IF \E r \in profiles : r.id = new.id THEN fail(UniqueViolation)
      ELSE IF new.id \notin AuthIds THEN fail(FkViolation)
      ELSE [status |-> OK, profiles |-> profiles \cup {new}]

\* supabase.from('profiles').update(p).match(f) as uid
ProfileUpdate(uid, f, p) ==
  /\ LET res == ProfilesUpdateResult(uid, f, p)
     IN  /\ profiles' = res.profiles
         /\ resp' = Resp("profiles.update", uid, res.status, {})
  /\ UNCHANGED <<auth_users, user_roles, stores, ratings, nextRatingId,
                 nextStoreId, now, uivars>>

\* supabase.from('profiles').insert(vals) as uid
ProfileInsert(uid, vals) ==
  /\ LET res == ProfilesInsertResult(uid, vals)
     IN  /\ profiles' = res.profiles
         /\ resp' = Resp("profiles.insert", uid, res.status, {})
  /\ UNCHANGED <<auth_users, user_roles, stores, ratings, nextRatingId,
                 nextStoreId, now, uivars>>

\* --------------------------------------------------------- timestamps
MaxNow == 3

\* now() is the start time of the transaction a statement runs in, not the
\* time the statement runs at.  Every request is a transaction of its own,
\* and requests overlap: one begun at time 1 may run its UPDATE, or get the
\* row's lock, only after one begun at time 2 has committed.  The statement
\* that runs next belongs to a transaction begun at t.
TransactionBegunAt(t) ==
  /\ t \in 1..MaxNow
  /\ now' = t
  /\ UNCHANGED <<auth_users, profiles, user_roles, stores, ratings, nextRatingId,
                 nextStoreId, resp, uivars>>

\* Updates of one column, and updates that send an updated_at of their own.
TsProfilePatches == {[name |-> "Zed"], [name |-> "Zed", updated_at |-> 0]}
TsStorePatches == {[name |-> "Mart"], [name |-> "Mart", updated_at |-> 0]}
TsRatingPatches == {[rating |-> 4], [rating |-> 4, updated_at |-> 0]}

InitTimestamps ==
  /\ SeededDb
  /\ ratings = {[id |-> 1, user_id |-> "u2", store_id |-> "s1", rating |-> 5,
                 updated_at |-> 0]}
  /\ nextRatingId = 2
  /\ owner_dash = NoOwnerDash
  /\ user_dash = NoUserDash
  /\ admin_dash = NoAdminDash

NextTimestamps ==
  \/ \E t \in 1..MaxNow : TransactionBegunAt(t)
  \/ \E uid \in {"u1", "u2"}, p \in TsProfilePatches : ProfileUpdate(uid, [id |-> "u2"], p)
  \/ \E uid \in {"u1", "u3"}, p \in TsStorePatches : StoreUpdate(uid, [id |-> "s1"], p)
  \/ \E p \in TsRatingPatches :
       RatingUpdate("u2", [user_id |-> "u2", store_id |-> "s1"], p)

SpecTimestamps == InitTimestamps /\ [][NextTimestamps]_vars

\* ------------------------------------------------- claims: timestamps
\* The rows of a table that are in the state after the step with another
\* content than before it: pairs of the old and the new row.
Updated(old_rows, new_rows) ==
  {x \in old_rows \X new_rows : x[1].id = x[2].id /\ x[1] # x[2]}

\* C13 as stated: every update of a row of profiles, stores or ratings leaves
\* the row with updated_at = now(), whatever updated_at the caller sent, and
\* with an updated_at that is not less than the row's updated_at before.
C13_UpdatedAtIsNowAndNeverDecreases ==
  [][\A x \in Updated(profiles, profiles') \cup Updated(stores, stores')
                \cup Updated(ratings, ratings') :
       /\ x[2].updated_at = now
       /\ x[2].updated_at >= x[1].updated_at]_vars

\* ----------------------------------- specification: the value of a rating
\* Statements on the rating of u2 for s1 sent to the table directly, by u2
\* and by u3, and the dashboard of u2.
InitRatingValue ==
  /\ SeededDb
  /\ ratings = {}
  /\ nextRatingId = 1
  /\ owner_dash = NoOwnerDash
  /\ user_dash = NoUserDash
  /\ admin_dash = NoAdminDash

NextRatingValue ==
  \/ \E uid \in RaterInputs, v \in RatingInputs :
       RatingInsert(uid, [user_id |-> "u2", store_id |-> "s1", rating |-> v])
  \/ \E uid \in RaterInputs, v \in RatingInputs :
       RatingUpdate(uid, [user_id |-> "u2", store_id |-> "s1"], [rating |-> v])
  \/ NUD_Mount("c1", "u2")
  \/ \E i \in 1..MaxFetch : NUD_FetchStoresData("c1", i)
  \/ \E i \in 1..MaxFetch : NUD_FetchUserRatings("c1", i)
  \/ \E store \in Dash("c1").stores : NUD_OpenRatingDialog("c1", store)
  \/ \E v \in StarInputs : NUD_SetRating("c1", v)
  \/ NUD_CloseDialog("c1")
  \/ NUD_HandleRatingSubmit("c1")
  \/ NUD_SubmitCompletes("c1")

SpecRatingValue == InitRatingValue /\ [][NextRatingValue]_vars

\* C14: every rating row holds a value in 1..5.  An insert whose value is
\* outside 1..5 fails and leaves the table as it was; an update to a value
\* outside 1..5 leaves the table as it was, and fails if it reaches a row.
\* A dashboard sends a submission only while its selected rating is not 0,
\* and sends that rating.
C14_RatingWithinOneToFive ==
  /\ [](\A r \in ratings : r.rating \in 1..5)
  /\ [](\A uid \in Callers, vals \in RatingVals :
          vals.rating \notin 1..5
            => /\ RatingsInsertResult(uid, vals).status # OK
               /\ RatingsInsertResult(uid, vals).ratings = ratings)
  /\ [](\A uid \in Callers, f \in RatingFilters, v \in RatingInputs :
          v \notin 1..5
            => LET res == RatingsUpdateResult(uid, f, [rating |-> v])
               IN  /\ res.ratings = ratings
                   /\ (\E r \in ratings : Matches(r, f) /\ r.user_id = uid)
                        => res.status = CheckViolation)
  /\ [][(/\ user_dash' = user_dash
          /\ resp'.op \in {"ratings.insert", "ratings.update"}
          /\ resp'.status # OK)
          => ratings' = ratings]_vars
  /\ [][\A c \in Clients :
          (Dash(c).submit = <<>> /\ user_dash'[c].submit # <<>>)
            => /\ Dash(c).rating # 0
               /\ user_dash'[c].submit[1].rating = Dash(c).rating
               /\ ratings' = ratings]_vars
  /\ [](\A c \in Clients : Dash(c).submit # <<>> => Dash(c).submit[1].rating \in 1..5)

\* C14 witness: the dialog of u2's dashboard is open with no star selected
\* and nothing sent, u2 has a rating of s1, and an update of it to a value
\* outside 1..5 has just been refused by the CHECK.
C14_Witness ==
  /\ Dash("c1").selectedStore # <<>>
  /\ Dash("c1").rating = 0
  /\ Dash("c1").submit = <<>>
  /\ RatingsOf("u2", "s1") # {}
  /\ resp.op = "ratings.update"
  /\ resp.caller = "u2"
  /\ resp.status = CheckViolation

\* ------------------------------------------------ SystemAdminDashboard
\* The forms: what the admin has typed when a button is clicked.
NewUserInputs ==
  [name : {"Jane"}, email : {"d@x"}, password : {"pw"}, address : {""}, role : AppRoles]
OwnerEmailInputs == {"a@x", "d@x", "z@x"}
NewStoreInputs == [name : {"Mart"}, ownerEmail : OwnerEmailInputs]

\* The body the handler receives for JSON.stringify(newUser) sent as
\* application/json: an object with the form's strings.
JsonBody(newUser) ==
  [is_string |-> FALSE, parses |-> TRUE, is_object |-> TRUE, name |-> newUser.name,
   email |-> newUser.email, password |-> newUser.password,
   address |-> newUser.address, role |-> newUser.role]

\* Index renders the dashboard for a signed-in system_admin; its effect
\* starts fetchDashboardData.
StartDashboardFetch(d) ==
  [d EXCEPT !.fetch = "stats", !.pending = CountRequests]

SAD_Mount(u) ==
  /\ admin_dash.pc = "unmounted"
  /\ has_role(u, "system_admin")
  /\ admin_dash' = StartDashboardFetch([admin_dash EXCEPT !.user = u, !.pc = "idle"])
  /\ UNCHANGED <<dbvars, resp, owner_dash, user_dash, api>>

\* select('*', { count: 'exact' }) on a table as uid: the number of rows the
\* SELECT policies show.
CountExact(uid, t) ==
  IF t = "profiles"
    THEN Cardinality({q \in profiles : ProfilesSelectPolicy(uid, q)})
  ELSE IF t = "stores" THEN Cardinality(StoresSelectResult(uid))
  ELSE Cardinality(RatingsSelectResult(uid))

\* fetchDashboardData: one of the three count requests is answered; with
\* the last of them the stats are set and the users request is sent.
SAD_FetchCount(t) ==
  /\ admin_dash.fetch = "stats"
  /\ t \in admin_dash.pending
  /\ LET counts == [admin_dash.counts EXCEPT ![t] = CountExact(admin_dash.user, t)]
         pending == admin_dash.pending \ {t}
     IN  admin_dash' =
           IF pending # {}
           THEN [admin_dash EXCEPT !.counts = counts, !.pending = pending]
           ELSE [admin_dash EXCEPT
                   !.counts = [c \in CountRequests |-> 0], !.pending = {},
                   !.stats = [totalUsers |-> counts["profiles"],
                              totalStores |-> counts["stores"],
                              totalRatings |-> counts["ratings"]],
                   !.fetch = "users"]
  /\ UNCHANGED <<dbvars, resp, owner_dash, user_dash, api>>

\* user.user_roles?.[0]?.role || 'normal_user': the role of one of the
\* user's role rows shown to uid, in no stated order.
FirstRoleChoices(uid, id) ==
  LET shown == {r.role : r \in {q \in user_roles : /\ RolesSelectPolicy(uid, q)
                                                  /\ q.user_id = id}}
  IN  IF shown = {} THEN {"normal_user"} ELSE shown

\* fetchDashboardData: the profiles with their roles and stores are
\* answered and formatted (rating: <<0>> for 0, <<>> for undefined), and
\* the store_ratings request is sent.
SAD_FetchUsers ==
  /\ admin_dash.fetch = "users"
  /\ LET uid == admin_dash.user
         usersData == {q \in profiles : ProfilesSelectPolicy(uid, q)}
         ids == {q.id : q \in usersData}
     IN  \E role \in [ids -> AppRoles] :
           /\ \A id \in ids : role[id] \in FirstRoleChoices(uid, id)
           /\ admin_dash' =
                [admin_dash EXCEPT
                   !.users = {[id |-> q.id, name |-> q.name, email |-> q.email,
                               address |-> q.address, role |-> role[q.id],
                               rating |-> IF \E st \in StoresSelectResult(uid) :
                                               st.owner_id = q.id
                                          THEN <<0>> ELSE <<>>] : q \in usersData},
                   !.fetch = "stores"]
  /\ UNCHANGED <<dbvars, resp, owner_dash, user_dash, api>>

\* fetchDashboardData: the store_ratings rows are answered.
SAD_FetchStores ==
  /\ admin_dash.fetch = "stores"
  /\ admin_dash' = [admin_dash EXCEPT !.stores = store_ratings, !.fetch = "none",
                                      !.loading = FALSE]
  /\ UNCHANGED <<dbvars, resp, owner_dash, user_dash, api>>

\* createUser after the response r of /api/create-user.
AfterCreateUser(d, r) ==
  IF r.status = "200"
  THEN StartDashboardFetch([d EXCEPT !.pc = "idle", !.request = <<>>,
                                     !.toast = "User created successfully"])
  ELSE [d EXCEPT !.pc = "idle", !.request = <<>>,
                 !.toast = CHOOSE m \in r.rows : TRUE]

\* createUser: the form is posted and the handler runs to the return of
\* auth.admin.createUser; the dashboard has the response, or waits for the
\* handler's role update.
SAD_CreateUser(newUser) ==
  /\ admin_dash.pc = "idle"
  /\ admin_dash.fetch = "none"
  /\ handler("POST", JsonBody(newUser))
  /\ admin_dash' = IF api' # api
                   THEN [admin_dash EXCEPT !.pc = "createUser",
                                           !.request = <<api'[Len(api')]>>]
                   ELSE AfterCreateUser(admin_dash, resp')

\* createUser: the handler's role update for the dashboard's request runs
\* and the response arrives.
SAD_CreateUserResponse ==
  /\ admin_dash.pc = "createUser"
  /\ \E i \in 1..Len(api) : <<api[i]>> = admin_dash.request /\ handler_RoleUpdate(i)
  /\ admin_dash' = AfterCreateUser(admin_dash, resp')

\* (mutation: without a matching row the lookup answers the caller's id)
ProfilesSingleByEmailOrSelf(uid, email) ==
  LET rows == {q \in profiles : ProfilesSelectPolicy(uid, q) /\ SqlEq(q.email, email)}
  IN  IF Cardinality(rows) = 1 THEN (CHOOSE q \in rows : TRUE).id ELSE uid

\* from('profiles').select('id').eq('email', email).single() as uid: the id
\* when exactly one row is shown and matches, otherwise no data.
ProfilesSingleByEmail(uid, email) ==
  LET rows == {q \in profiles : ProfilesSelectPolicy(uid, q) /\ SqlEq(q.email, email)}
  IN  IF Cardinality(rows) = 1 THEN (CHOOSE q \in rows : TRUE).id ELSE NULL

\* createStore from the click to the answer of the owner lookup: without
\* an owner it ends with a toast, otherwise the store insert is sent.
SAD_CreateStore(newStore) ==
  /\ admin_dash.pc = "idle"
  /\ admin_dash.fetch = "none"
  /\ LET ownerData == ProfilesSingleByEmail(admin_dash.user, newStore.ownerEmail)
     IN  admin_dash' =
           IF ownerData = NULL
           THEN [admin_dash EXCEPT !.toast = "Owner not found with this email"]
           ELSE [admin_dash EXCEPT !.pc = "createStore.insert",
                                   !.ownerData = ownerData,
                                   !.newStore = <<newStore>>]
  /\ UNCHANGED <<dbvars, resp, owner_dash, user_dash, api>>

\* createStore: the store insert runs; its error ends createStore with a
\* toast, otherwise the role update is sent.
SAD_CreateStoreInsert ==
  /\ admin_dash.pc = "createStore.insert"
  /\ LET res == StoresInsertResult(admin_dash.user,
                  [owner_id |-> admin_dash.ownerData,
                   name |-> admin_dash.newStore[1].name])
     IN  /\ res.status = OK => nextStoreId <= MaxStoreId
         /\ stores' = res.stores
         /\ nextStoreId' = IF res.status = OK THEN nextStoreId + 1 ELSE nextStoreId
         /\ admin_dash' =
              IF res.status # OK
              THEN [admin_dash EXCEPT !.pc = "idle", !.toast = res.status,
                                      !.ownerData = NULL, !.newStore = <<>>]
              ELSE [admin_dash EXCEPT !.pc = "createStore.role"]
  /\ UNCHANGED <<auth_users, profiles, user_roles, ratings, nextRatingId, now,
                 resp, owner_dash, user_dash, api>>

\* createStore: the role update runs, its outcome is not looked at, and
\* createStore ends with the success toast and fetchDashboardData.
SAD_CreateStoreRole ==
  /\ admin_dash.pc = "createStore.role"
  /\ LET res == RolesUpdateResult(admin_dash.user,
                                  [user_id |-> admin_dash.ownerData],
                                  [role |-> "store_owner"])
     IN  user_roles' = res.user_roles
  /\ admin_dash' = StartDashboardFetch(
                     [admin_dash EXCEPT !.pc = "idle",
                                        !.toast = "Store created successfully",
                                        !.ownerData = NULL, !.newStore = <<>>])
  /\ UNCHANGED <<auth_users, profiles, stores, ratings, nextRatingId, nextStoreId,
                 now, resp, owner_dash, user_dash, api>>

\* Registrations, provisioning requests of any client and one admin
\* dashboard, from a database with its first identity, a system_admin.
ProvisionMetaInputs == {[name |-> "Jane", address |-> NULL]}
ProvisionRequests ==
  {req \in RequestInputs : /\ req.body.name = "Jane"
                           /\ req.body.address = NULL
                           /\ req.body.email = "d@x"
                           /\ req.body.parses}

NextProvision ==
  \/ \E email \in EmailInputs, meta \in ProvisionMetaInputs : AuthUsersInsert(email, meta)
  \/ \E req \in ProvisionRequests : handler(req.method, req.body) /\ UNCHANGED admin_dash
  \/ \E i \in 1..Len(api) :
       /\ <<api[i]>> # admin_dash.request
       /\ handler_RoleUpdate(i)
       /\ UNCHANGED admin_dash
  \/ \E u \in AuthIds : SAD_Mount(u)
  \/ \E t \in CountRequests : SAD_FetchCount(t)
  \/ SAD_FetchUsers
  \/ SAD_FetchStores
  \/ \E newUser \in NewUserInputs : SAD_CreateUser(newUser)
  \/ SAD_CreateUserResponse
  \/ \E newStore \in NewStoreInputs : SAD_CreateStore(newStore)
  \/ SAD_CreateStoreInsert
  \/ SAD_CreateStoreRole

SpecProvision == InitRegister /\ [][NextProvision]_vars

\* ------------------------------------------------- claims: provisioning
\* C15: in every state reached through registration, the provisioning
\* endpoint and the admin dashboard's createUser and createStore, every
\* identity has exactly one user_roles row; a step never adds a role row
\* for an identity that existed before it and never leaves an identity
\* without one.
C15_ExactlyOneRoleRowPerUser ==
  /\ [](\A u \in auth_users :
          Cardinality({r \in user_roles : r.user_id = u.id}) = 1)
  /\ [][\A u \in auth_users :
          /\ Cardinality({r \in user_roles' : r.user_id = u.id}) = 1
          /\ Cardinality(user_roles') = Cardinality(user_roles)
                                        + Cardinality(auth_users' \ auth_users)]_vars

\* C15 witness: the endpoint has overwritten the role of a created user,
\* createStore has overwritten the role of the owner it named, and each of
\* the three identities has one role row.
C15_Witness ==
  /\ Cardinality(auth_users) = 3
  /\ admin_dash.toast = "Store created successfully"
  /\ \E st \in stores : RolesOf(st.owner_id) = {"store_owner"}
  /\ \E u \in auth_users : RolesOf(u.id) = {"system_admin"} /\ u.id # "u1"
  /\ \A u \in auth_users : Cardinality({r \in user_roles : r.user_id = u.id}) = 1

\* C16: for a request whose method is not POST, whatever its body, the
\* provisioning handler has one outcome: the answer 405 with the error
\* "Method not allowed", with auth.users, profiles and user_roles as they
\* were and no role update started; and a step answered 405 has changed
\* none of them.
C16_NonPostIsRefused ==
  /\ [](\A method \in MethodInputs \ {"POST"}, body \in BodyInputs :
          handlerOutcomes(method, body) =
            {[resp |-> Resp("api.create-user", NULL, "405", {"Method not allowed"}),
              auth_users |-> auth_users, profiles |-> profiles,
              user_roles |-> user_roles, api |-> api]})
  /\ [][(resp'.op = "api.create-user" /\ resp'.status = "405") =>
          /\ auth_users' = auth_users
          /\ profiles' = profiles
          /\ user_roles' = user_roles
          /\ api' = api]_vars

\* C16 witness: after a POST has created an identity, a GET has been
\* answered with 405.
C16_Witness ==
  /\ resp.op = "api.create-user"
  /\ resp.status = "405"
  /\ Cardinality(auth_users) = 2

\* A body that is not a well-formed provisioning request: a string that is
\* not JSON, no object, or an object without email or without password.
Malformed(body) ==
  \/ body.is_string /\ ~body.parses
  \/ ~body.is_object
  \/ body.email = NULL
  \/ body.password = NULL

\* The error messages the handler writes itself.
HandlerMessages == {"Method not allowed", "Invalid JSON format"}

\* C17: a step of the provisioning handler for a POST with a malformed body
\* answers 400 with an error message of the handler's own and creates no
\* identity.
C17_MalformedBodyIsRejected ==
  [][\A body \in BodyInputs :
       (Malformed(body) /\ handler("POST", body)) =>
         /\ resp'.status = "400"
         /\ resp'.rows \subseteq HandlerMessages
         /\ auth_users' = auth_users]_vars

\* C18: when the handler has created the identity and its role update
\* fails, the response is 400 with the error of the role update, the
\* identity and its profile are still there, no row of auth.users, profiles
\* or user_roles has changed, and the user's role is normal_user.
C18_FailedRoleUpdateLeavesDefaultRole ==
  [][\A i \in 1..Len(api) :
       LET res == RolesUpdateAsServiceRole([user_id |-> api[i].user_id],
                                           [role |-> api[i].role])
           id == api[i].user_id
       IN  (res.status # OK /\ handler_RoleUpdate(i)) =>
             /\ resp'.status = "400"
             /\ resp'.rows = {res.status}
             /\ \E u \in auth_users' : u.id = id
             /\ \E q \in profiles' : q.id = id
             /\ {r.role : r \in {q \in user_roles' : q.user_id = id}} = {"normal_user"}
             /\ auth_users' = auth_users
             /\ profiles' = profiles
             /\ user_roles' = user_roles]_vars

\* C18 witness: a request with a role that is no app_role was answered 400
\* with the error of the role update, and the user it created is there with
\* a profile and the role normal_user.
C18_Witness ==
  /\ resp.op = "api.create-user"
  /\ resp.status = "400"
  /\ resp.rows = {InvalidEnumValue}
  /\ api = <<>>
  /\ \E u \in auth_users :
       /\ u.id # "u1"
       /\ ProfilesOf(u.id) # {}
       /\ RolesOf(u.id) = {"normal_user"}

\* Provisioning requests and registrations while an admin dashboard creates
\* stores for owners that are there already (or for nobody): no createStore
\* names a user the endpoint creates.
OtherOwnerEmails == {"a@x", "z@x"}

NextEndpoint ==
  \/ \E email \in EmailInputs, meta \in ProvisionMetaInputs : AuthUsersInsert(email, meta)
  \/ \E req \in ProvisionRequests : handler(req.method, req.body) /\ UNCHANGED admin_dash
  \/ \E i \in 1..MaxRequests : handler_RoleUpdate(i) /\ UNCHANGED admin_dash
  \/ \E u \in AuthIds : SAD_Mount(u)
  \/ \E t \in CountRequests : SAD_FetchCount(t)
  \/ SAD_FetchUsers
  \/ SAD_FetchStores
  \/ \E newStore \in NewStoreInputs :
       newStore.ownerEmail \in OtherOwnerEmails /\ SAD_CreateStore(newStore)
  \/ SAD_CreateStoreInsert
  \/ SAD_CreateStoreRole

SpecEndpoint == InitRegister /\ [][NextEndpoint]_vars

\* C19: a provisioning request answered 200 has created a user whose only
\* role is the request's role when the request has one other than
\* normal_user, and normal_user otherwise; the handler's steps insert no
\* store, so that user, a store_owner included, owns no store.
C19_SuccessGivesRequestedRole ==
  /\ [](\A body \in BodyInputs : \A out \in handlerOutcomes("POST", body) :
          LET newIds == {u.id : u \in out.auth_users \ auth_users}
          IN  /\ out.api # api =>
                   /\ body.role \notin {NULL, "normal_user"}
                   /\ out.api = Append(api, [user_id |-> CHOOSE id \in newIds : TRUE,
                                             role |-> body.role])
                   /\ Cardinality(newIds) = 1
              /\ out.resp.status = "200" =>
                   /\ body.role \in {NULL, "normal_user"}
                   /\ out.resp.rows = newIds
                   /\ Cardinality(newIds) = 1
                   /\ \A id \in newIds :
                        /\ {r.role : r \in {q \in out.user_roles : q.user_id = id}}
                             = {"normal_user"}
                        /\ {st \in stores : st.owner_id = id} = {})
  /\ [][(resp' # resp /\ resp'.op \in {"api.create-user", "auth.admin.createUser"})
          => stores' = stores]_vars
  /\ [][\A i \in 1..Len(api) :
          handler_RoleUpdate(i) =>
            /\ stores' = stores
            /\ resp'.status = "200" =>
                 /\ resp'.rows = {api[i].user_id}
                 /\ {r.role : r \in {q \in user_roles' : q.user_id = api[i].user_id}}
                      = {api[i].role}
                 /\ {st \in stores' : st.owner_id = api[i].user_id} = {}]_vars

\* C19 witness: a request with role store_owner was answered 200; the user
\* it created is a store_owner and owns none of the stores there are.
C19_Witness ==
  /\ resp.op = "api.create-user"
  /\ resp.status = "200"
  /\ stores # {}
  /\ \E id \in resp.rows :
       /\ RolesOf(id) = {"store_owner"}
       /\ {st \in stores : st.owner_id = id} = {}

\* ---------------------------------------------------- profiles writes
\* Profile updates and inserts sent by any caller, and role updates (which
\* make and unmake system_admins), on the seeded database.
ProfileIdInputs == {"u2", "u3", "u9"}
ProfileFilters == [id : {"u2", "u3"}] \cup {[address |-> "C St"]}
ProfilePatches == [name : {"Zed"}] \cup [id : ProfileIdInputs]
ProfileVals == [id : ProfileIdInputs, name : {"Zed"}, email : {"z@x"}, address : {""}]

InitProfiles ==
  /\ SeededDb
  /\ ratings = {}
  /\ nextRatingId = 1
  /\ owner_dash = NoOwnerDash
  /\ user_dash = NoUserDash
  /\ admin_dash = NoAdminDash

NextProfiles ==
  \/ \E uid \in Callers, f \in ProfileFilters, p \in ProfilePatches : ProfileUpdate(uid, f, p)
  \/ \E uid \in Callers, vals \in ProfileVals : ProfileInsert(uid, vals)
  \/ \E uid \in Callers, f \in RoleFilters, p \in RolePatches : RoleUpdate(uid, f, p)

SpecProfiles == InitProfiles /\ [][NextProfiles]_vars

\* C20: a step changes a profile row only if it is an update sent by the
\* user whose id the row has, before and after, or by a system_admin; an
\* insert into profiles by a caller without system_admin fails on the
\* policy and an insert by a system_admin does not; a step of a caller
\* without system_admin leaves every profile row of another user as it was
\* and adds none.
C20_ProfilesWrittenByOwnerOrAdmin ==
  /\ [][\A q \in (profiles \ profiles') \cup (profiles' \ profiles) :
          \/ IsAdmin(resp'.caller)
          \/ /\ resp'.op = "profiles.update"
             /\ resp'.caller # NULL
             /\ resp'.caller = q.id]_vars
  /\ [][resp'.op = "profiles.insert" =>
          /\ resp'.status = RlsViolation <=> ~IsAdmin(resp'.caller)
          /\ ~IsAdmin(resp'.caller) => profiles' = profiles]_vars
  /\ [][~IsAdmin(resp'.caller) =>
          /\ {q \in profiles : q.id # resp'.caller}
               = {q \in profiles' : q.id # resp'.caller}
          /\ {q.id : q \in profiles'} = {q.id : q \in profiles}]_vars

\* C20 witness: u2, a normal_user, has renamed its own profile, u3's profile
\* is as seeded, and an insert by u3 has just failed on the policy.
C20_Witness ==
  /\ \E q \in profiles : q.id = "u2" /\ q.name = "Zed"
  /\ \E q \in profiles : q.id = "u3" /\ q.name = "Cy" /\ q.updated_at = 0
  /\ RolesOf("u2") = {"normal_user"}
  /\ resp.op = "profiles.insert"
  /\ resp.caller = "u3"
  /\ resp.status = RlsViolation

\* ------------------------------------------------ claims: store owner
\* An update of owner_id to another identity, sent by the owner of a store
\* the filter reaches, who holds no system_admin role.
OwnerReassigns(uid, f, o) ==
  /\ uid # NULL
  /\ ~IsAdmin(uid)
  /\ o # uid
  /\ \E s \in stores : Matches(s, f) /\ s.owner_id = uid

\* C21 as stated: such an update goes through, and every store it reached
\* then belongs to the other identity.
C21_OwnerCanReassignStore ==
  \A uid \in Callers, f \in StoreFilters, o \in OwnerInputs :
    OwnerReassigns(uid, f, o) =>
      LET res == StoresUpdateResult(uid, f, [owner_id |-> o])
      IN  /\ res.status = OK
          /\ \A s \in stores :
               (Matches(s, f) /\ s.owner_id = uid) =>
                 \E t \in res.stores : t.id = s.id /\ t.owner_id = o

\* C21 amended: such an update fails on the policy, whose USING expression
\* is also the check of the row written, and changes no store; the owner's
\* update of another column goes through; and a step changes the owner_id
\* of a store only if its caller holds system_admin.
C21_OwnerCannotReassignStore ==
  /\ [](\A uid \in Callers, f \in StoreFilters, o \in OwnerInputs :
          OwnerReassigns(uid, f, o) =>
            /\ StoresUpdateResult(uid, f, [owner_id |-> o]).status = RlsViolation
            /\ StoresUpdateResult(uid, f, [owner_id |-> o]).stores = stores
            /\ StoresUpdateResult(uid, f, [name |-> "Mart"]).status = OK
            /\ \A s \in stores :
                 (Matches(s, f) /\ s.owner_id = uid) =>
                   \E t \in StoresUpdateResult(uid, f, [name |-> "Mart"]).stores :
                     t.id = s.id /\ t.name = "Mart" /\ t.owner_id = uid)
  /\ [][\A s \in stores, t \in stores' :
          (s.id = t.id /\ s.owner_id # t.owner_id) => IsAdmin(resp'.caller)]_vars
  /\ [][(resp'.op = "stores.update" /\ resp'.status = RlsViolation)
          => stores' = stores]_vars

\* C21 witness: the store_owner u3 has renamed its store, and its update of
\* the store's owner_id has just failed on the policy; the store is u3's.
C21_Witness ==
  /\ resp.op = "stores.update"
  /\ resp.caller = "u3"
  /\ resp.status = RlsViolation
  /\ ~IsAdmin("u3")
  /\ \E s \in stores : s.id = "s1" /\ s.owner_id = "u3" /\ s.name = "Mart"

\* ------------------------------------------------ claims: fetchStores
\* A store card agrees with some state of the ratings table: when it shows
\* a rating of the user, the ratings it counts include one, and the others
\* it counts, each from 1 to 5, make up the rest of the sum behind the
\* average.
AgreesWithOneState(card) ==
  \/ card.user_rating = NoRating
  \/ /\ card.total_ratings >= 1
     /\ LET sum == (card.average_rating.num * card.total_ratings)
                     \div card.average_rating.den
        IN  sum - card.user_rating
              \in (card.total_ratings - 1)..(5 * (card.total_ratings - 1))

\* C22: every store card a NormalUserDashboard shows, the aggregate of the
\* store with the user's own rating for it, agrees with one state of the
\* ratings table.
C22_FetchStoresShowsOneState ==
  \A c \in Clients : \A card \in Dash(c).stores : AgreesWithOneState(card)

\* ------------------------------------------------ claims: createStore
\* C23: a createStore whose owner email is the email of no profile row ends
\* at once with the toast "Owner not found with this email": stores and
\* user_roles are as they were, and no store insert or role update of this
\* call is left to run.  A createStore goes on to its store insert only
\* with the id of a profile that has the owner email.
C23_UnknownOwnerChangesNothing ==
  /\ [][\A newStore \in NewStoreInputs :
          (/\ SAD_CreateStore(newStore)
           /\ ~\E q \in profiles : q.email = newStore.ownerEmail)
          => /\ stores' = stores
             /\ user_roles' = user_roles
             /\ nextStoreId' = nextStoreId
             /\ admin_dash'.pc = "idle"
             /\ admin_dash'.toast = "Owner not found with this email"]_vars
  /\ [](admin_dash.pc \in {"createStore.insert", "createStore.role"} =>
          \E q \in profiles : /\ q.id = admin_dash.ownerData
                              /\ q.email = admin_dash.newStore[1].ownerEmail)

\* C23 witness: the admin's createStore for an email no profile has has
\* just ended with the toast, with a second user registered and no store.
C23_Witness ==
  /\ admin_dash.pc = "idle"
  /\ admin_dash.toast = "Owner not found with this email"
  /\ IsAdmin(admin_dash.user)
  /\ Cardinality(auth_users) = 2
  /\ \E q \in profiles : q.email = "d@x"
  /\ stores = {}
  /\ nextStoreId = 1

\* C24: the step in which createStore ends with its success toast leaves a
\* store whose owner_id is the owner it found, and that owner with the
\* single role store_owner, whatever role the owner had, system_admin and
\* the acting admin included.
C24_CreateStoreMakesOwnerStoreOwner ==
  [][SAD_CreateStoreRole =>
       /\ admin_dash'.toast = "Store created successfully"
       /\ \E st \in stores' : st.owner_id = admin_dash.ownerData
       /\ {r.role : r \in {q \in user_roles' : q.user_id = admin_dash.ownerData}}
            = {"store_owner"}]_vars

\* C24 witness: createStore has succeeded naming the acting admin, the only
\* system_admin there was: it owns a store, its role is store_owner, and no
\* user holds system_admin.
C24_Witness ==
  /\ admin_dash.pc = "idle"
  /\ admin_dash.toast = "Store created successfully"
  /\ \E st \in stores : st.owner_id = admin_dash.user
  /\ RolesOf(admin_dash.user) = {"store_owner"}
  /\ {r \in user_roles : r.role = "system_admin"} = {}
  /\ Cardinality(auth_users) = 2

\* ------------------------------------ specification: the owner's screen
\* What StoreOwnerDashboard renders: the loading text, the "No Store Found"
\* card when storeInfo is null, otherwise the store and its ratings.
SOD_Screen(d) ==
  IF d.loading THEN "Loading dashboard..."
  ELSE IF d.storeInfo = <<>> THEN "No Store Found"
  ELSE "Store Owner Dashboard"

\* Stores are inserted, handed over and deleted while u2 or u3 opens the
\* store owner dashboard.
NextOwnerDash ==
  \/ \E uid \in Callers, o \in OwnerInputs :
       StoreInsert(uid, [owner_id |-> o, name |-> "Shop"])
  \/ \E uid \in Callers, f \in StoreFilters, p \in StorePatches : StoreUpdate(uid, f, p)
  \/ \E uid \in Callers, f \in StoreFilters : StoreDelete(uid, f)
  \/ \E u \in OwnerInputs : SOD_Mount(u)
  \/ SOD_FetchStore
  \/ SOD_FetchRatings
  \/ SOD_FetchProfiles

SpecOwnerDash == InitStores /\ [][NextOwnerDash]_vars

\* ------------------------------------------ claims: the owner's screen
OwnedStores(uid) == {st \in stores : st.owner_id = uid}

\* C25: the single-row fetch gives the dashboard a store exactly when the
\* signed-in user owns one store at that moment, and then it is that store;
\* with no store or with several the fetch ends on the "No Store Found"
\* screen; and whenever no store was found no rating list is or gets loaded.
C25_StoreShownIffExactlyOneOwned ==
  /\ [][SOD_FetchStore =>
          IF Cardinality(OwnedStores(owner_dash.user)) = 1
          THEN /\ owner_dash'.storeInfo # <<>>
               /\ \E st \in OwnedStores(owner_dash.user) :
                    owner_dash'.storeInfo[1].id = st.id
               /\ owner_dash'.pc = "ratings"
          ELSE /\ owner_dash'.storeInfo = <<>>
               /\ owner_dash'.pc = "done"
               /\ SOD_Screen(owner_dash') = "No Store Found"]_vars
  /\ [](owner_dash.storeInfo = <<>> =>
          /\ owner_dash.pc \notin {"ratings", "profiles"}
          /\ owner_dash.ratingsData = {}
          /\ owner_dash.ratings = {})
  /\ [](owner_dash.pc = "done" =>
          (SOD_Screen(owner_dash) = "Store Owner Dashboard"
             <=> owner_dash.storeInfo # <<>>))

\* C25 witness: u3 owns two stores, its fetch has ended, and the screen is
\* "No Store Found" with no ratings loaded although s1 has a rating.
C25_Witness ==
  /\ owner_dash.user = "u3"
  /\ owner_dash.pc = "done"
  /\ resp.op = "store_ratings.single"
  /\ Cardinality(OwnedStores("u3")) = 2
  /\ SOD_Screen(owner_dash) = "No Store Found"
  /\ owner_dash.ratings = {}
  /\ \E r \in ratings : r.store_id = "s1"

====
